---- MODULE Spec2Model ----
(***************************************************************************)
(* Filesystem persistence of a kanban board (board -> column -> task):     *)
(* BoardRepositoryImpl.Save / FindByID over a directory tree, the slug     *)
(* derivation of column directory keys, and the SafeWrite primitive.       *)
(***************************************************************************)
EXTENDS Integers, Sequences, FiniteSets, TLC

VARIABLES
    board,   \* the in-memory Board handed to the repository
    disk,    \* the directory tree of the board under the boards root
    save,    \* position of the Save call in flight and its last outcome
    faults,  \* how many Save calls have failed or been interrupted so far
    sw,      \* one SafeWrite call: its position, the target and the temp file
    rt,      \* one task's dates: the clock, the task, its stored form, the loaded task
    root,    \* the boards root: the entries directly under it
    call     \* the last repository call other than Save and what it returned

vars == <<board, disk, save, faults, sw, rt, root, call>>

-----------------------------------------------------------------------------
(* Bounds of the model. *)

\* Largest number of columns the in-memory board holds.
MaxColumns == 2

\* Largest task number the board counter mints.
MaxTaskNum == 1

\* Largest number of Save calls that fail or are interrupted in one behaviour.
MaxFaults == 1

\* Longest byte buffer handed to SafeWrite.
MaxDataLen == 2

(* Program constants. *)

\* slug.Generate caps the slug at 50 characters.
SlugMaxLen == 50

-----------------------------------------------------------------------------
(* Characters and strings.  A string is a sequence of one-character        *)
(* strings, so that the slug derivation is computed character by           *)
(* character.                                                              *)

LowerLetters ==
    {"a", "b", "c", "d", "e", "f", "g", "i", "n", "o", "p", "r", "s", "t", "u", "l", "x"}
Digits == {"0", "1", "2", "3", "4", "5", "6", "7", "8", "9"}

\* strings.ToLower on the model's alphabet.
ToLower(c) ==
    CASE c = "A" -> "a"
      [] c = "D" -> "d"
      [] c = "F" -> "f"
      [] c = "I" -> "i"
      [] c = "P" -> "p"
      [] c = "T" -> "t"
      [] OTHER -> c

\* The complement of the character class [^a-z0-9].
IsSlugChar(c) == c \in LowerLetters \cup Digits

RECURSIVE ReplaceNonAlnum(_)
\* nonAlphanumericRegex.ReplaceAllString(slug, "-"): every maximal run of
\* characters outside a-z0-9 becomes one hyphen.
ReplaceNonAlnum(s) ==
    IF s = <<>> THEN <<>>
    ELSE IF IsSlugChar(Head(s)) THEN <<Head(s)>> \o ReplaceNonAlnum(Tail(s))
    ELSE IF Len(s) > 1 /\ ~IsSlugChar(s[2]) THEN ReplaceNonAlnum(Tail(s))
    ELSE <<"-">> \o ReplaceNonAlnum(Tail(s))

RECURSIVE TrimLeftHyphen(_)
TrimLeftHyphen(s) ==
    IF s # <<>> /\ Head(s) = "-" THEN TrimLeftHyphen(Tail(s)) ELSE s

RECURSIVE TrimRightHyphen(_)
\* strings.TrimRight(slug, "-")
TrimRightHyphen(s) ==
    IF s # <<>> /\ s[Len(s)] = "-"
    THEN TrimRightHyphen(SubSeq(s, 1, Len(s) - 1))
    ELSE s

\* strings.Trim(slug, "-")
TrimHyphens(s) == TrimRightHyphen(TrimLeftHyphen(s))

Untitled == <<"u", "n", "t", "i", "t", "l", "e", "d">>

\* A Generate that cuts at SlugMaxLen characters and leaves what the cut left
\* at the end.
GenerateCutOnly(s) ==
    LET lower   == [i \in 1..Len(s) |-> ToLower(s[i])]
        spaced  == [i \in 1..Len(lower) |-> IF lower[i] = " " THEN "-" ELSE lower[i]]
        cleaned == ReplaceNonAlnum(spaced)
        trimmed == TrimHyphens(cleaned)
    IN  IF trimmed = <<>> THEN Untitled
        ELSE IF Len(trimmed) > SlugMaxLen
             THEN SubSeq(trimmed, 1, SlugMaxLen)
             ELSE trimmed

\* slug.Generate: lower-case, spaces to hyphens, runs of other characters to
\* one hyphen, hyphens trimmed, "untitled" when nothing is left, at most
\* SlugMaxLen characters with a trailing hyphen trimmed after the cut.
Generate(s) ==
    LET lower   == [i \in 1..Len(s) |-> ToLower(s[i])]
        spaced  == [i \in 1..Len(lower) |-> IF lower[i] = " " THEN "-" ELSE lower[i]]
        cleaned == ReplaceNonAlnum(spaced)
        trimmed == TrimHyphens(cleaned)
    IN  IF trimmed = <<>> THEN Untitled
        ELSE IF Len(trimmed) > SlugMaxLen
             THEN TrimRightHyphen(SubSeq(trimmed, 1, SlugMaxLen))
             ELSE trimmed

-----------------------------------------------------------------------------
(* Directory listings.  os.ReadDir returns the entries sorted by file      *)
(* name, so the order of byte strings is modelled.                         *)

\* The byte value of a character of the model's alphabet.
CharCode(c) ==
    CASE c = " " -> 32 [] c = "!" -> 33 [] c = "-" -> 45
      [] c = "0" -> 48 [] c = "1" -> 49 [] c = "2" -> 50 [] c = "3" -> 51
      [] c = "4" -> 52 [] c = "5" -> 53 [] c = "6" -> 54 [] c = "7" -> 55
      [] c = "8" -> 56 [] c = "9" -> 57
      [] c = "A" -> 65 [] c = "D" -> 68 [] c = "E" -> 69 [] c = "F" -> 70
      [] c = "I" -> 73 [] c = "M" -> 77 [] c = "O" -> 79 [] c = "P" -> 80
      [] c = "T" -> 84
      [] c = "a" -> 97 [] c = "b" -> 98 [] c = "c" -> 99 [] c = "d" -> 100
      [] c = "e" -> 101 [] c = "f" -> 102 [] c = "g" -> 103 [] c = "i" -> 105
      [] c = "l" -> 108 [] c = "n" -> 110 [] c = "o" -> 111 [] c = "p" -> 112
      [] c = "r" -> 114 [] c = "s" -> 115 [] c = "t" -> 116 [] c = "u" -> 117
      [] c = "x" -> 120
      [] OTHER -> 127

RECURSIVE NameLess(_, _)
\* a sorts before b in a directory listing.
NameLess(a, b) ==
    IF a = <<>> THEN b # <<>>
    ELSE IF b = <<>> THEN FALSE
    ELSE IF Head(a) = Head(b) THEN NameLess(Tail(a), Tail(b))
    ELSE CharCode(Head(a)) < CharCode(Head(b))

\* The first name of a non-empty set of names in listing order.
FirstName(S) == CHOOSE a \in S : \A b \in S \ {a} : NameLess(a, b)

RECURSIVE SortedNames(_)
\* os.ReadDir: the names of S as a sorted sequence.
SortedNames(S) ==
    IF S = {} THEN <<>>
    ELSE LET a == FirstName(S) IN <<a>> \o SortedNames(S \ {a})

\* Functions with a changing domain stand for the children of a directory.
EmptyFn == [x \in {} |-> TRUE]
Put(f, k, v) == [x \in (DOMAIN f) \cup {k} |-> IF x = k THEN v ELSE f[x]]
Del(f, k) == [x \in (DOMAIN f) \ {k} |-> f[x]]
Range(q) == {q[i] : i \in DOMAIN q}

-----------------------------------------------------------------------------
(* Entities.                                                               *)

NameToDo == <<"T", "o", " ", "D", "o">>
NameToDoDash == <<"t", "o", "-", "d", "o">>
NameDone == <<"D", "o", "n", "e">>

\* The display names a column can be created with, in the order of their
\* order field.
NameTable == <<NameToDo, NameToDoDash, NameDone>>
DisplayNames == Range(NameTable)

OrderOf(name) == CHOOSE i \in 0..(Len(NameTable) - 1) : NameTable[i + 1] = name
WipLimitOf(name) == IF name = NameDone THEN 0 ELSE MaxTaskNum + 1
DescriptionOf(name) == IF name = NameDone THEN "" ELSE "work"

BoardID == "demo"
BoardName == <<"d", "e", "m", "o">>
BoardPrefix == <<"D", "E", "M", "O">>

TitleTable == << <<"F", "i", "x">>, <<"A", "d", "d">>, <<"D", "o", "c">>, <<"T", "a", "x">> >>
TitleOf(n) == TitleTable[((n - 1) % Len(TitleTable)) + 1]
PriorityOf(n) == IF n % 2 = 1 THEN "high" ELSE "none"
TagsOf(n) == IF n % 2 = 1 THEN <<"urgent">> ELSE <<>>

\* strconv.Itoa for the task numbers of the model.
RECURSIVE Itoa(_)
Itoa(n) ==
    LET d == <<"0", "1", "2", "3", "4", "5", "6", "7", "8", "9">>[(n % 10) + 1]
    IN  IF n < 10 THEN <<d>> ELSE Itoa(n \div 10) \o <<d>>

\* TaskID.ShortID(): PREFIX-NUMBER.
ShortID(id) == id.prefix \o <<"-">> \o Itoa(id.number)

\* TaskID.String(): PREFIX-NUMBER-slug, the task's folder name.
TaskIDString(id) == ShortID(id) \o <<"-">> \o id.slug

\* entity.NewColumn with the fields the repository persists.
NewColumn(name) ==
    [displayName |-> name, description |-> DescriptionOf(name),
     order |-> OrderOf(name), wipLimit |-> WipLimitOf(name), tasks |-> <<>>]

\* entity.NewTask as CreateTask builds it: slug from the title, status todo.
NewTask(n) ==
    [id |-> [prefix |-> BoardPrefix, number |-> n, slug |-> Generate(TitleOf(n))],
     title |-> TitleOf(n), description |-> "body", priority |-> PriorityOf(n),
     status |-> "todo", tags |-> TagsOf(n)]

NewBoard == [columns |-> <<>>, nextTaskNum |-> 1]

\* A key that also depends on the position of the column.
ColumnKeyWithOrder(col) == Generate(col.displayName) \o Itoa(col.order)

\* The normalized folder key of a column, as saveColumn and
\* cleanupOldColumns compute it.
ColumnKey(col) == Generate(col.displayName)

ColumnKeys(b) == {ColumnKey(b.columns[i]) : i \in DOMAIN b.columns}
TaskFolders(col) == {TaskIDString(col.tasks[i].id) : i \in DOMAIN col.tasks}
BoardTasks(b) == UNION {Range(b.columns[i].tasks) : i \in DOMAIN b.columns}

-----------------------------------------------------------------------------
(* Files and directories.                                                  *)

Absent == [kind |-> "absent"]
CorruptFile == [kind |-> "corrupt"]
YamlFile(fields) == [kind |-> "yaml", fields |-> fields]
MdFile(title, body) == [kind |-> "md", title |-> title, body |-> body]
TextFile(body) == [kind |-> "text", body |-> body]
FmFile(fields, body) == [kind |-> "fm", fields |-> fields, body |-> body]

EmptyTaskDir == [meta |-> Absent, md |-> Absent]
EmptyColDir ==
    [meta |-> Absent, content |-> Absent, hasTasks |-> FALSE,
     tasks |-> EmptyFn, root |-> EmptyFn]
EmptyDisk ==
    [exists |-> FALSE, meta |-> Absent, content |-> Absent,
     hasColumns |-> FALSE, cols |-> EmptyFn, legacy |-> EmptyFn]

\* A storage format that leaves the task counter out.
BoardToStorageNoCounter(b) ==
    [id |-> BoardID, prefix |-> BoardPrefix, description |-> ""]

\* mapper.BoardToStorage
BoardToStorage(b) ==
    [id |-> BoardID, prefix |-> BoardPrefix, description |-> "",
     next_task_num |-> b.nextTaskNum]

\* The board.md Save writes: "# <name>" and the description.
BoardContentToMarkdown(b) == MdFile(BoardName, "")

\* The metadata.yml of a column: order and wip_limit.
ColumnMetadataToStorage(col) == [order |-> col.order, wip_limit |-> col.wipLimit]

\* The column.md of a column: "# <display name>" and the description.
ColumnContentToMarkdown(col) == MdFile(col.displayName, col.description)

\* mapper.TaskToStorage: the key/value block; tags only when there are some.
TaskToStorage(t) ==
    LET base == [id |-> ShortID(t.id), title |-> t.title,
                 priority |-> t.priority, status |-> t.status]
    IN  IF Len(t.tags) > 0
        THEN [k \in (DOMAIN base) \cup {"tags"} |->
                 IF k = "tags" THEN t.tags ELSE base[k]]
        ELSE base

\* mapper.TaskToStorage: the body of task.md is the description.
TaskContent(t) == TextFile(t.description)

-----------------------------------------------------------------------------
(* Save: one step per filesystem operation of BoardRepositoryImpl.Save.    *)
(* save.pc names the operation about to run; ci and ti are the column and  *)
(* the task the loops of Save and saveColumn have reached.  save.result is *)
(* what the last Save returned, save.start the tree it started from,       *)
(* save.fresh whether the board is as FindByID returned it, save.afterFail *)
(* whether the Save before this one failed or was interrupted, save.again  *)
(* whether the Save before this one returned success and the board was not *)
(* changed since.                                                          *)

NoSave ==
    [pc |-> "idle", ci |-> 0, ti |-> 0, result |-> "none", failedOp |-> "none",
     afterFail |-> FALSE, again |-> FALSE, fresh |-> FALSE, start |-> EmptyFn]

Idle == save.pc = "idle"

MkdirPcs == {"boardDir", "colDir", "taskDir"}
WritePcs == {"boardMeta", "boardContent", "colMeta", "colContent", "taskMeta", "taskMd"}
RemovePcs == {"cleanTasks", "cleanCols"}

CurColumn == board.columns[save.ci]
CurKey == ColumnKey(CurColumn)
CurTask == CurColumn.tasks[save.ti]
CurFolder == TaskIDString(CurTask.id)

\* filesystem.EnsureDir(columnDir): os.MkdirAll creates the missing parents.
EnsureColumnDir(d, k) ==
    [d EXCEPT !.exists = TRUE, !.hasColumns = TRUE,
              !.cols = IF k \in DOMAIN d.cols THEN d.cols
                       ELSE Put(d.cols, k, EmptyColDir)]

\* filesystem.EnsureDir(taskDir) inside column directory cd.
EnsureTaskDir(cd, f) ==
    [cd EXCEPT !.hasTasks = TRUE,
               !.tasks = IF f \in DOMAIN cd.tasks THEN cd.tasks
                         ELSE Put(cd.tasks, f, EmptyTaskDir)]

\* A reconciliation that never removes a task directory.
StaleTasksNever(col, cd) == {}

\* cleanupOldTasks: the entries of tasks/ that are no task of the column.
StaleTasks(col, cd) ==
    IF ~cd.hasTasks THEN {} ELSE (DOMAIN cd.tasks) \ TaskFolders(col)

\* A reconciliation that compares the directory names with the display names
\* of the columns instead of their normalized keys.
StaleColumnsByDisplayName(b, d) ==
    IF ~d.hasColumns THEN {}
    ELSE (DOMAIN d.cols) \ {b.columns[i].displayName : i \in DOMAIN b.columns}

\* cleanupOldColumns: the entries of columns/ that are no key of the board.
StaleColumns(b, d) ==
    IF ~d.hasColumns THEN {} ELSE (DOMAIN d.cols) \ ColumnKeys(b)

\* The loop of Save over board.Columns(), then cleanupOldColumns.
ColumnStep(s, i) ==
    IF i <= Len(board.columns)
    THEN [s EXCEPT !.pc = "colDir", !.ci = i, !.ti = 0]
    ELSE [s EXCEPT !.pc = "cleanCols", !.ci = 0, !.ti = 0]

\* The loop of saveColumn over column.Tasks(), then cleanupOldTasks.
TaskStep(s, j) ==
    IF j <= Len(board.columns[s.ci].tasks)
    THEN [s EXCEPT !.pc = "taskDir", !.ti = j]
    ELSE [s EXCEPT !.pc = "cleanTasks", !.ti = 0]

\* Save returns nil.
SaveReturnsOk(s) ==
    [s EXCEPT !.pc = "idle", !.ci = 0, !.ti = 0, !.result = "ok"]

\* A Save that records the error, skips the rest of the writes and still
\* reconciles the columns.
SaveRecordsError(s, op) ==
    [s EXCEPT !.pc = "cleanCols", !.ci = 0, !.ti = 0, !.result = "error", !.failedOp = op]

\* Save returns the wrapped error of the operation that failed.
SaveReturnsError(s, op) ==
    [s EXCEPT !.pc = "idle", !.ci = 0, !.ti = 0, !.result = "error", !.failedOp = op]

\* The task directories under tasks/ of every column directory under columns/.
TaskDirs(d) == [k \in DOMAIN d.cols |-> DOMAIN d.cols[k].tasks]

\* The caller invokes Save(board).
SaveCall ==
    /\ Idle
    /\ save' = [NoSave EXCEPT !.pc = "boardDir", !.start = TaskDirs(disk),
                              !.afterFail = (save.result = "error"),
                              !.again = (save.result = "ok"),
                              !.fresh = (save.fresh /\ save.result = "none")]
    /\ UNCHANGED <<board, disk, faults, sw, rt, root, call>>

SaveBoardDir ==
    /\ save.pc = "boardDir"
    /\ disk' = [disk EXCEPT !.exists = TRUE]
    /\ save' = [save EXCEPT !.pc = "boardMeta"]
    /\ UNCHANGED <<board, faults, sw, rt, root, call>>

SaveBoardMetadataYaml ==
    /\ save.pc = "boardMeta"
    /\ disk' = [disk EXCEPT !.meta = YamlFile(BoardToStorage(board))]
    /\ save' = [save EXCEPT !.pc = "boardContent"]
    /\ UNCHANGED <<board, faults, sw, rt, root, call>>

SaveBoardContent ==
    /\ save.pc = "boardContent"
    /\ disk' = [disk EXCEPT !.content = BoardContentToMarkdown(board)]
    /\ save' = ColumnStep(save, 1)
    /\ UNCHANGED <<board, faults, sw, rt, root, call>>

SaveColumnDir ==
    /\ save.pc = "colDir"
    /\ disk' = EnsureColumnDir(disk, CurKey)
    /\ save' = [save EXCEPT !.pc = "colMeta"]
    /\ UNCHANGED <<board, faults, sw, rt, root, call>>

SaveColumnMetadataYaml ==
    /\ save.pc = "colMeta"
    /\ disk' = [disk EXCEPT !.cols[CurKey].meta =
                   YamlFile(ColumnMetadataToStorage(CurColumn))]
    /\ save' = [save EXCEPT !.pc = "colContent"]
    /\ UNCHANGED <<board, faults, sw, rt, root, call>>

SaveColumnContent ==
    /\ save.pc = "colContent"
    /\ disk' = [disk EXCEPT !.cols[CurKey].content = ColumnContentToMarkdown(CurColumn)]
    /\ save' = TaskStep(save, 1)
    /\ UNCHANGED <<board, faults, sw, rt, root, call>>

SaveTaskDir ==
    /\ save.pc = "taskDir"
    /\ disk' = [disk EXCEPT !.cols[CurKey] = EnsureTaskDir(@, CurFolder)]
    /\ save' = [save EXCEPT !.pc = "taskMeta"]
    /\ UNCHANGED <<board, faults, sw, rt, root, call>>

SaveTaskMetadataYaml ==
    /\ save.pc = "taskMeta"
    /\ disk' = [disk EXCEPT !.cols[CurKey].tasks[CurFolder].meta =
                   YamlFile(TaskToStorage(CurTask))]
    /\ save' = [save EXCEPT !.pc = "taskMd"]
    /\ UNCHANGED <<board, faults, sw, rt, root, call>>

SaveTaskMd ==
    /\ save.pc = "taskMd"
    /\ disk' = [disk EXCEPT !.cols[CurKey].tasks[CurFolder].md = TaskContent(CurTask)]
    /\ save' = TaskStep(save, save.ti + 1)
    /\ UNCHANGED <<board, faults, sw, rt, root, call>>

\* cleanupOldTasks removes the next stale task directory of the listing.
CleanupOldTasksRemove ==
    /\ save.pc = "cleanTasks"
    /\ StaleTasks(CurColumn, disk.cols[CurKey]) # {}
    /\ LET f == FirstName(StaleTasks(CurColumn, disk.cols[CurKey]))
       IN  disk' = [disk EXCEPT !.cols[CurKey].tasks = Del(@, f)]
    /\ UNCHANGED <<board, save, faults, sw, rt, root, call>>

\* cleanupOldTasks returns nil; saveColumn returns; Save takes the next column.
CleanupOldTasksDone ==
    /\ save.pc = "cleanTasks"
    /\ StaleTasks(CurColumn, disk.cols[CurKey]) = {}
    /\ save' = ColumnStep(save, save.ci + 1)
    /\ UNCHANGED <<board, disk, faults, sw, rt, root, call>>

\* cleanupOldColumns removes the next stale column directory of the listing.
CleanupOldColumnsRemove ==
    /\ save.pc = "cleanCols"
    /\ StaleColumns(board, disk) # {}
    /\ disk' = [disk EXCEPT !.cols = Del(@, FirstName(StaleColumns(board, disk)))]
    /\ UNCHANGED <<board, save, faults, sw, rt, root, call>>

\* cleanupOldColumns returns nil and Save returns nil.
CleanupOldColumnsDone ==
    /\ save.pc = "cleanCols"
    /\ StaleColumns(board, disk) = {}
    /\ save' = SaveReturnsOk(save)
    /\ UNCHANGED <<board, disk, faults, sw, rt, root, call>>

\* The operation Save is about to run, when it is one that can fail.
PendingOp ==
    IF save.pc \in MkdirPcs THEN "mkdir"
    ELSE IF save.pc \in WritePcs THEN "write"
    ELSE IF save.pc = "cleanTasks" /\ StaleTasks(CurColumn, disk.cols[CurKey]) # {}
         THEN "remove"
    ELSE IF save.pc = "cleanCols" /\ StaleColumns(board, disk) # {} THEN "remove"
    ELSE "none"

\* EnsureDir, SafeWrite or RemoveDir returns an error: every caller up to
\* Save returns it at once.  A failed SafeWrite leaves its target unchanged.
SaveFails ==
    /\ PendingOp # "none"
    /\ faults < MaxFaults
    /\ faults' = faults + 1
    /\ save' = SaveReturnsError(save, PendingOp)
    /\ UNCHANGED <<board, disk, sw, rt, root, call>>

\* The process is interrupted in the middle of Save.
SaveCrashes ==
    /\ ~Idle
    /\ faults < MaxFaults
    /\ faults' = faults + 1
    /\ save' = [save EXCEPT !.pc = "idle", !.ci = 0, !.ti = 0, !.result = "error",
                            !.failedOp = "crash"]
    /\ UNCHANGED <<board, disk, sw, rt, root, call>>

-----------------------------------------------------------------------------
(* Load: FindByID as a function of the directory tree.                     *)

Priorities == {"none", "low", "medium", "high", "critical"}
Statuses == {"todo", "in-progress", "done"}

\* FrontmatterDocument.GetString / GetInt / GetStringSlice: the zero value
\* when the key is missing.
GetString(fields, key) == IF key \in DOMAIN fields THEN fields[key] ELSE <<>>
GetWord(fields, key) == IF key \in DOMAIN fields THEN fields[key] ELSE ""
GetInt(fields, key) == IF key \in DOMAIN fields THEN fields[key] ELSE 0
GetStringSlice(fields, key) == IF key \in DOMAIN fields THEN fields[key] ELSE <<>>

Failed == [ok |-> FALSE]

RECURSIVE Atoi(_)
Atoi(ds) ==
    IF ds = <<>> THEN 0
    ELSE 10 * Atoi(SubSeq(ds, 1, Len(ds) - 1)) + (CharCode(ds[Len(ds)]) - 48)

\* The position of the first hyphen of s, 0 when it has none.
FirstHyphen(s) ==
    IF \E i \in 1..Len(s) : s[i] = "-"
    THEN CHOOSE i \in 1..Len(s) : s[i] = "-" /\ \A j \in 1..(i - 1) : s[j] # "-"
    ELSE 0

\* The part of s before its first hyphen and the part after it.
BeforeHyphen(s) == IF FirstHyphen(s) = 0 THEN s ELSE SubSeq(s, 1, FirstHyphen(s) - 1)
AfterHyphen(s) == IF FirstHyphen(s) = 0 THEN <<>> ELSE SubSeq(s, FirstHyphen(s) + 1, Len(s))

\* The task ID of a prefix, a number in digits and a slug.
TaskIDOf(prefix, num, slug) ==
    IF prefix = <<>> \/ num = <<>> \/ \E k \in 1..Len(num) : num[k] \notin Digits
    THEN Failed
    ELSE [ok |-> TRUE, id |-> [prefix |-> prefix, number |-> Atoi(num), slug |-> slug]]

\* valueobject.ParseTaskID: PREFIX-NUMBER-slug (the slug may be missing).
ParseTaskID(folder) ==
    TaskIDOf(BeforeHyphen(folder), BeforeHyphen(AfterHyphen(folder)),
             AfterHyphen(AfterHyphen(folder)))

\* isTaskDirectory
IsTaskDirectory(name) == ParseTaskID(name).ok

RECURSIVE AddTags(_, _)
\* Task.AddTag for each stored tag: a tag already present is not added.
AddTags(tags, new) ==
    IF new = <<>> THEN tags
    ELSE AddTags(IF Head(new) \in Range(tags) THEN tags ELSE Append(tags, Head(new)),
                 Tail(new))

\* A mapper that does not compare the stored id with the folder's task ID.
TaskFromStorageUnchecked(fields, content, id) ==
    LET title    == GetString(fields, "title")
        prio     == GetWord(fields, "priority")
        priority == IF prio = "" THEN "none" ELSE prio
        stat     == GetWord(fields, "status")
        status   == IF stat = "" THEN "todo" ELSE stat
    IN  IF title = <<>> THEN Failed
        ELSE IF priority \notin Priorities THEN Failed
        ELSE IF status \notin Statuses THEN Failed
        ELSE [ok |-> TRUE,
              task |-> [id |-> id, title |-> title, description |-> content,
                        priority |-> priority, status |-> status,
                        tags |-> AddTags(<<>>, GetStringSlice(fields, "tags"))]]

\* A mapper that hands the stored priority and status on without parsing them.
TaskFromStorageLenient(fields, content, id) ==
    LET shortID  == GetString(fields, "id")
        title    == GetString(fields, "title")
    IN  IF shortID # <<>> /\ shortID # ShortID(id) THEN Failed
        ELSE IF title = <<>> THEN Failed
        ELSE [ok |-> TRUE,
              task |-> [id |-> id, title |-> title, description |-> content,
                        priority |-> GetWord(fields, "priority"),
                        status |-> GetWord(fields, "status"),
                        tags |-> AddTags(<<>>, GetStringSlice(fields, "tags"))]]

\* mapper.TaskFromStorage: the folder's task ID is authoritative; a stored id
\* that differs from its short form, a missing title, an unknown priority or
\* status are errors; priority and status default to none and todo.
TaskFromStorage(fields, content, id) ==
    LET shortID  == GetString(fields, "id")
        title    == GetString(fields, "title")
        prio     == GetWord(fields, "priority")
        priority == IF prio = "" THEN "none" ELSE prio
        stat     == GetWord(fields, "status")
        status   == IF stat = "" THEN "todo" ELSE stat
    IN  IF shortID # <<>> /\ shortID # ShortID(id) THEN Failed
        ELSE IF title = <<>> THEN Failed
        ELSE IF priority \notin Priorities THEN Failed
        ELSE IF status \notin Statuses THEN Failed
        ELSE [ok |-> TRUE,
              task |-> [id |-> id, title |-> title, description |-> content,
                        priority |-> priority, status |-> status,
                        tags |-> AddTags(<<>>, GetStringSlice(fields, "tags"))]]

\* loadTask / loadTaskFromColumnRoot / loadTaskLegacy: metadata.yml is read and
\* parsed, task.md is read, the folder name is parsed as the task ID.
TaskOfParsedID(td, parsed) ==
    IF ~parsed.ok THEN Failed
    ELSE TaskFromStorage(td.meta.fields, td.md.body, parsed.id)

LoadTask(td, folder) ==
    IF td.meta.kind # "yaml" \/ td.md.kind = "absent" THEN Failed
    ELSE TaskOfParsedID(td, ParseTaskID(folder))

\* Column.CanAddTask: the work-in-progress limit, 0 meaning none.
CanAddTask(col) == col.wipLimit = 0 \/ Len(col.tasks) < col.wipLimit

\* Column.AddTask
AddTaskOk(col, t) ==
    /\ CanAddTask(col)
    /\ \A i \in DOMAIN col.tasks : col.tasks[i].id # t.id

\* A loop body that returns the error of loadTask instead of skipping the
\* task.
AttachTaskStrict(col, r) ==
    IF ~r.ok THEN Failed
    ELSE IF ~AddTaskOk(col, r.task) THEN Failed
    ELSE [ok |-> TRUE, col |-> [col EXCEPT !.tasks = Append(@, r.task)]]

\* The body of the loop of loadTasks for the result r of loadTask: nothing is
\* attached when loadTask failed.
AttachTask(col, r) ==
    IF ~r.ok THEN [ok |-> TRUE, col |-> col]
    ELSE IF ~AddTaskOk(col, r.task) THEN Failed
    ELSE [ok |-> TRUE, col |-> [col EXCEPT !.tasks = Append(@, r.task)]]

RECURSIVE LoadTaskEntries(_, _, _)
\* The loop of loadTasks over the listing: a task that cannot be loaded is
\* skipped, an error of AddTask is returned.
LoadTaskEntries(dirs, names, acc) ==
    IF names = <<>> \/ ~acc.ok THEN acc
    ELSE LoadTaskEntries(dirs, Tail(names),
             AttachTask(acc.col, LoadTask(dirs[Head(names)], Head(names))))

\* loadTasksFromColumnRoot and loadTasksLegacy: the entries of the column
\* directory whose names parse as task IDs.
LoadTasksFromColumnRoot(cd, col) ==
    LoadTaskEntries(cd.root,
                    SortedNames({f \in DOMAIN cd.root : IsTaskDirectory(f)}),
                    [ok |-> TRUE, col |-> col])

\* loadTasks: tasks/ when it exists, else the column directory itself.
LoadTasks(cd, col) ==
    IF cd.hasTasks
    THEN LoadTaskEntries(cd.tasks, SortedNames(DOMAIN cd.tasks),
                         [ok |-> TRUE, col |-> col])
    ELSE LoadTasksFromColumnRoot(cd, col)

\* mapper.ColumnFromStorage(doc, folderName, displayName, description)
ColumnFromStorage(fields, folder, title, body) ==
    [displayName |-> IF title = <<>> THEN folder ELSE title, description |-> body,
     order |-> GetInt(fields, "order"), wipLimit |-> GetInt(fields, "wip_limit"),
     tasks |-> <<>>]

\* mapper.ColumnFromLegacyStorage(doc, folderName): display_name falls back
\* to the folder name.
ColumnFromLegacyStorage(fields, folder) ==
    [displayName |-> IF GetString(fields, "display_name") = <<>> THEN folder
                     ELSE GetString(fields, "display_name"),
     description |-> GetWord(fields, "description"),
     order |-> GetInt(fields, "order"), wipLimit |-> GetInt(fields, "wip_limit"),
     tasks |-> <<>>]

\* serialization.ParseFrontmatter: a file that does not begin with the
\* delimiter has an empty key/value block; a block that is not YAML is an
\* error.
FrontmatterOf(file) == IF file.kind = "fm" THEN file.fields ELSE EmptyFn
FrontmatterOk(file) == file.kind # "corrupt"

\* serialization.ParseMarkdownWithTitle: the heading and the text after it.
ContentTitle(file) == IF file.kind = "md" THEN file.title ELSE <<>>
ContentBody(file) == IF file.kind \in {"md", "fm", "text"} THEN file.body ELSE ""

\* A probe that tries the front-matter column.md before the split pair.
ColumnOfLegacyFirst(cd, folder) ==
    IF cd.content.kind = "fm"
    THEN [ok |-> TRUE,
          col |-> ColumnFromLegacyStorage(FrontmatterOf(cd.content), folder)]
    ELSE IF cd.meta.kind # "yaml" THEN Failed
    ELSE IF cd.content.kind # "absent"
    THEN [ok |-> TRUE,
          col |-> ColumnFromStorage(cd.meta.fields, folder,
                      ContentTitle(cd.content), ContentBody(cd.content))]
    ELSE [ok |-> TRUE, col |-> ColumnFromStorage(cd.meta.fields, folder, folder, "")]

\* The probe of loadColumn and loadColumnLegacy: the split pair when both
\* files are read, else a column.md that parses as front matter, else
\* metadata.yml alone with the folder name as display name, else an error.
ColumnOf(cd, folder) ==
    IF cd.meta.kind # "absent" /\ cd.content.kind # "absent"
    THEN IF cd.meta.kind # "yaml" THEN Failed
         ELSE [ok |-> TRUE,
               col |-> ColumnFromStorage(cd.meta.fields, folder,
                           ContentTitle(cd.content), ContentBody(cd.content))]
    ELSE IF cd.content.kind # "absent" /\ FrontmatterOk(cd.content)
    THEN [ok |-> TRUE,
          col |-> ColumnFromLegacyStorage(FrontmatterOf(cd.content), folder)]
    ELSE IF cd.meta.kind = "yaml"
    THEN [ok |-> TRUE, col |-> ColumnFromStorage(cd.meta.fields, folder, folder, "")]
    ELSE Failed

\* The tasks of the column the probe has built: loadTasks for a column under
\* columns/, loadTasksLegacy for one directly under the board directory.
LoadColumnTasks(cd, r, legacy) ==
    IF ~r.ok THEN Failed
    ELSE IF legacy THEN LoadTasksFromColumnRoot(cd, r.col)
    ELSE LoadTasks(cd, r.col)

\* loadColumn (legacy = FALSE) and loadColumnLegacy (legacy = TRUE).
LoadColumn(cd, folder, legacy) == LoadColumnTasks(cd, ColumnOf(cd, folder), legacy)

\* Board.AddColumn
AddColumnOk(cols, col) ==
    \A i \in DOMAIN cols : cols[i].displayName # col.displayName

RECURSIVE InsertByOrder(_, _)
InsertByOrder(cols, col) ==
    IF cols = <<>> THEN <<col>>
    ELSE IF col.order < Head(cols).order THEN <<col>> \o cols
    ELSE <<Head(cols)>> \o InsertByOrder(Tail(cols), col)

RECURSIVE ReorderColumns(_)
\* Board.ReorderColumns: the columns sorted by their order field.
ReorderColumns(cols) ==
    IF cols = <<>> THEN <<>>
    ELSE InsertByOrder(ReorderColumns(SubSeq(cols, 1, Len(cols) - 1)), cols[Len(cols)])

\* The body of the loop of loadColumns for the result r of loadColumn: nothing
\* is attached when loadColumn failed.
AttachColumn(cols, r) ==
    IF ~r.ok THEN [ok |-> TRUE, columns |-> cols]
    ELSE IF ~AddColumnOk(cols, r.col) THEN Failed
    ELSE [ok |-> TRUE, columns |-> Append(cols, r.col)]

RECURSIVE LoadColumnEntries(_, _, _, _)
\* The loop of loadColumns / loadColumnsLegacy over the listing: a column that
\* cannot be loaded is skipped, an error of AddColumn is returned.
LoadColumnEntries(dirs, names, legacy, acc) ==
    IF names = <<>> \/ ~acc.ok THEN acc
    ELSE LoadColumnEntries(dirs, Tail(names), legacy,
             AttachColumn(acc.columns,
                          LoadColumn(dirs[Head(names)], Head(names), legacy)))

\* board.ReorderColumns() at the end of loadColumns.
Reordered(r) ==
    IF r.ok THEN [ok |-> TRUE, columns |-> ReorderColumns(r.columns)] ELSE Failed

\* loadColumns: columns/ when it exists, else the directories of the board
\* directory that hold a column.md or a metadata.yml.
LoadColumns(d) ==
    Reordered(
        IF d.hasColumns
        THEN LoadColumnEntries(d.cols, SortedNames(DOMAIN d.cols), FALSE,
                               [ok |-> TRUE, columns |-> <<>>])
        ELSE LoadColumnEntries(d.legacy,
                 SortedNames({k \in DOMAIN d.legacy :
                     d.legacy[k].content.kind # "absent"
                         \/ d.legacy[k].meta.kind # "absent"}),
                 TRUE, [ok |-> TRUE, columns |-> <<>>]))

\* loadBoardMetadata with mapper.BoardFromStorage: the split pair, else a
\* front-matter board.md; a missing id is an error.
LoadBoardMetadata(d) ==
    LET fields == IF d.meta.kind = "yaml" THEN d.meta.fields
                  ELSE FrontmatterOf(d.content)
        num    == GetInt(fields, "next_task_num")
    IN  IF d.content.kind = "absent" THEN Failed
        ELSE IF d.meta.kind = "corrupt" THEN Failed
        ELSE IF d.meta.kind = "absent" /\ ~FrontmatterOk(d.content) THEN Failed
        ELSE IF GetWord(fields, "id") = "" THEN Failed
        ELSE [ok |-> TRUE, nextTaskNum |-> IF num > 0 THEN num ELSE 1]

\* FindByID: ErrBoardNotFound without the board directory, else the board
\* metadata and the columns.
BoardOf(meta, cols) ==
    IF ~meta.ok THEN Failed
    ELSE IF ~cols.ok THEN Failed
    ELSE [ok |-> TRUE,
          board |-> [columns |-> cols.columns, nextTaskNum |-> meta.nextTaskNum]]

FindByID(d) ==
    IF ~d.exists THEN Failed ELSE BoardOf(LoadBoardMetadata(d), LoadColumns(d))

-----------------------------------------------------------------------------
(* The domain operations of the caller on the in-memory board, between two *)
(* repository calls.                                                       *)

\* A use case (BoardService.CreateTask, MoveTask, DeleteTask, AddColumnToBoard,
\* ...) applies one domain operation to the board it has loaded or has just
\* saved, and saves it.  After a failed or interrupted Save the caller saves
\* again or reloads.
CanEdit ==
    /\ Idle
    /\ save.fresh \/ save.result = "ok"
    /\ faults = 0

Edited == NoSave
Loaded == [NoSave EXCEPT !.fresh = TRUE]

\* Board.AddColumn and Board.ReorderColumns
AddColumn(name) ==
    /\ CanEdit
    /\ Len(board.columns) < MaxColumns
    /\ AddColumnOk(board.columns, NewColumn(name))
    /\ board' = [board EXCEPT !.columns = ReorderColumns(Append(@, NewColumn(name)))]
    /\ save' = Edited
    /\ UNCHANGED <<disk, faults, sw, rt, root, call>>

\* Board.RemoveColumn
RemoveColumn(i) ==
    /\ CanEdit
    /\ board' = [board EXCEPT !.columns =
                    SubSeq(@, 1, i - 1) \o SubSeq(@, i + 1, Len(@))]
    /\ save' = Edited
    /\ UNCHANGED <<disk, faults, sw, rt, root, call>>

\* BoardService.CreateTask: the next task number is minted and the task is
\* appended to the column.
CreateTask(i) ==
    /\ CanEdit
    /\ board.nextTaskNum <= MaxTaskNum
    /\ CanAddTask(board.columns[i])
    /\ board' = [board EXCEPT !.columns[i].tasks = Append(@, NewTask(board.nextTaskNum)),
                              !.nextTaskNum = @ + 1]
    /\ save' = Edited
    /\ UNCHANGED <<disk, faults, sw, rt, root, call>>

\* Column.RemoveTask
RemoveTask(i, j) ==
    /\ CanEdit
    /\ board' = [board EXCEPT !.columns[i].tasks =
                    SubSeq(@, 1, j - 1) \o SubSeq(@, j + 1, Len(@))]
    /\ save' = Edited
    /\ UNCHANGED <<disk, faults, sw, rt, root, call>>

\* Board.MoveTask: the task leaves its column and is appended to the target.
MoveTask(i, j, k) ==
    /\ CanEdit
    /\ k # i
    /\ CanAddTask(board.columns[k])
    /\ board' = [board EXCEPT
                    !.columns[i].tasks = SubSeq(@, 1, j - 1) \o SubSeq(@, j + 1, Len(@)),
                    !.columns[k].tasks = Append(@, board.columns[i].tasks[j])]
    /\ save' = Edited
    /\ UNCHANGED <<disk, faults, sw, rt, root, call>>

\* The caller loads the board: FindByID(id).
LoadBoard ==
    /\ Idle
    /\ \E found \in {FindByID(disk)} :
           /\ found.ok
           /\ board' = found.board
    /\ save' = Loaded
    /\ UNCHANGED <<disk, faults, sw, rt, root, call>>

-----------------------------------------------------------------------------
(* Directory trees found at start-up: no board yet, and boards written by  *)
(* earlier generations of the layout or edited by hand.                    *)

TaskDirOf(t) == [meta |-> YamlFile(TaskToStorage(t)), md |-> TaskContent(t)]
BoardFiles(d, n) ==
    [d EXCEPT !.exists = TRUE,
              !.meta = YamlFile(BoardToStorage([columns |-> <<>>, nextTaskNum |-> n])),
              !.content = MdFile(BoardName, "")]

\* Columns directly under the board directory, a front-matter column.md, tasks
\* directly under the column directory.
LegacyDisk ==
    [BoardFiles(EmptyDisk, 2) EXCEPT !.legacy =
        Put(EmptyFn, NameToDo,
            [EmptyColDir EXCEPT
                !.content = FmFile([order |-> 0, wip_limit |-> 0], ""),
                !.root = Put(EmptyFn, TaskIDString(NewTask(1).id), TaskDirOf(NewTask(1)))])]

\* columns/ with a split pair, tasks still directly under the column directory.
ColumnRootDisk ==
    [BoardFiles(EmptyDisk, 2) EXCEPT !.hasColumns = TRUE, !.cols =
        Put(EmptyFn, Generate(NameDone),
            [EmptyColDir EXCEPT
                !.meta = YamlFile(ColumnMetadataToStorage(NewColumn(NameDone))),
                !.content = ColumnContentToMarkdown(NewColumn(NameDone)),
                !.root = Put(EmptyFn, TaskIDString(NewTask(1).id), TaskDirOf(NewTask(1)))])]

\* The current layout with one task whose metadata.yml does not parse.
CorruptTaskDisk ==
    [BoardFiles(EmptyDisk, 2) EXCEPT !.hasColumns = TRUE, !.cols =
        Put(EmptyFn, Generate(NameDone),
            [EmptyColDir EXCEPT
                !.meta = YamlFile(ColumnMetadataToStorage(NewColumn(NameDone))),
                !.content = ColumnContentToMarkdown(NewColumn(NameDone)),
                !.hasTasks = TRUE,
                !.tasks = Put(EmptyFn, TaskIDString(NewTask(1).id),
                              [TaskDirOf(NewTask(1)) EXCEPT !.meta = CorruptFile])])]

InitialDisks == {EmptyDisk, LegacyDisk, ColumnRootDisk, CorruptTaskDisk}

\* SafeWrite is not running.
NoWrite == [pc |-> "none"]

\* No task is being stored, the boards root is not looked at, no call was made.
NoRoundTrip == [now |-> 0]
NoRoot == EmptyFn
NoCall == [op |-> "none"]

Init ==
    /\ disk \in InitialDisks
    /\ \E found \in {FindByID(disk)} :
           /\ board = IF found.ok THEN found.board ELSE NewBoard
           /\ save = IF found.ok THEN Loaded ELSE NoSave
    /\ faults = 0
    /\ sw = NoWrite
    /\ rt = NoRoundTrip
    /\ root = NoRoot
    /\ call = NoCall

SaveStep ==
    \/ SaveCall
    \/ SaveBoardDir
    \/ SaveBoardMetadataYaml
    \/ SaveBoardContent
    \/ SaveColumnDir
    \/ SaveColumnMetadataYaml
    \/ SaveColumnContent
    \/ SaveTaskDir
    \/ SaveTaskMetadataYaml
    \/ SaveTaskMd
    \/ CleanupOldTasksRemove
    \/ CleanupOldTasksDone
    \/ CleanupOldColumnsRemove
    \/ CleanupOldColumnsDone
    \/ SaveFails
    \/ SaveCrashes

Next ==
    \/ SaveStep
    \/ LoadBoard
    \/ \E name \in DisplayNames : AddColumn(name)
    \/ \E i \in DOMAIN board.columns : RemoveColumn(i)
    \/ \E i \in DOMAIN board.columns : CreateTask(i)
    \/ \E i \in DOMAIN board.columns : \E j \in DOMAIN board.columns[i].tasks :
           RemoveTask(i, j)
    \/ \E i \in DOMAIN board.columns : \E j \in DOMAIN board.columns[i].tasks :
           \E k \in DOMAIN board.columns : MoveTask(i, j, k)

Spec == Init /\ [][Next]_vars

-----------------------------------------------------------------------------
(* SafeWrite(filePath, data, perm), one step per system call.  sw.pre is   *)
(* the target before the call, sw.target the target now, sw.tmp the        *)
(* temporary file of this call, sw.tmpFile the Go variable tmpFile (nil,   *)
(* an open handle or a closed one), sw.err the step that failed.           *)

Bytes == {"a", "b"}
Contents == UNION {[1..n -> Bytes] : n \in 0..MaxDataLen}

AbsentFile == [exists |-> FALSE, bytes |-> <<>>]
FileOf(bytes) == [exists |-> TRUE, bytes |-> bytes]

\* The steps after the deferred cleanup is registered, in program order.
DeferredPcs == {"write", "sync", "close", "chmod", "rename", "success"}
SwRunning == sw.pc \in {"mkdirAll", "createTemp", "deferred"} \cup DeferredPcs

SafeWriteCall(pre, data) ==
    [pc |-> "mkdirAll", pre |-> pre, target |-> pre, data |-> data,
     tmp |-> AbsentFile, tmpFile |-> "nil", renamed |-> FALSE,
     err |-> "none", result |-> "none"]

\* A write that went to the target path itself.
WriteTarget(s, bytes) == [s EXCEPT !.target = FileOf(bytes)]

\* tmpFile.Write: the bytes reach the temporary file.
WriteTemp(s, bytes) == [s EXCEPT !.tmp = FileOf(bytes)]

\* A deferred function that closes the handle and leaves the file.
DeferredCloseOnly(s) ==
    IF s.tmpFile = "nil" THEN s ELSE [s EXCEPT !.tmpFile = "closed"]

\* The deferred function: when tmpFile is not nil, Close and os.Remove(tmpPath).
DeferredCleanup(s) ==
    IF s.tmpFile = "nil" THEN s
    ELSE [s EXCEPT !.tmpFile = "closed", !.tmp = AbsentFile]

\* os.MkdirAll(dir, 0755)
SwMkdirAll ==
    /\ sw.pc = "mkdirAll"
    /\ sw' = [sw EXCEPT !.pc = "createTemp"]
    /\ UNCHANGED <<board, disk, save, faults, rt, root, call>>

\* os.CreateTemp(dir, ".tmp-*"): a new empty file in the target's directory.
SwCreateTemp ==
    /\ sw.pc = "createTemp"
    /\ sw' = [sw EXCEPT !.pc = "write", !.tmp = FileOf(<<>>), !.tmpFile = "open"]
    /\ UNCHANGED <<board, disk, save, faults, rt, root, call>>

\* tmpFile.Write(data) has written one more byte.
SwWriteByte ==
    /\ sw.pc = "write"
    /\ Len(sw.tmp.bytes) < Len(sw.data)
    /\ sw' = WriteTemp(sw, SubSeq(sw.data, 1, Len(sw.tmp.bytes) + 1))
    /\ UNCHANGED <<board, disk, save, faults, rt, root, call>>

\* tmpFile.Write(data) returns nil.
SwWriteReturns ==
    /\ sw.pc = "write"
    /\ Len(sw.tmp.bytes) = Len(sw.data)
    /\ sw' = [sw EXCEPT !.pc = "sync"]
    /\ UNCHANGED <<board, disk, save, faults, rt, root, call>>

\* tmpFile.Sync()
SwSync ==
    /\ sw.pc = "sync"
    /\ sw' = [sw EXCEPT !.pc = "close"]
    /\ UNCHANGED <<board, disk, save, faults, rt, root, call>>

\* tmpFile.Close()
SwClose ==
    /\ sw.pc = "close"
    /\ sw' = [sw EXCEPT !.pc = "chmod", !.tmpFile = "closed"]
    /\ UNCHANGED <<board, disk, save, faults, rt, root, call>>

\* os.Chmod(tmpPath, perm)
SwChmod ==
    /\ sw.pc = "chmod"
    /\ sw' = [sw EXCEPT !.pc = "rename"]
    /\ UNCHANGED <<board, disk, save, faults, rt, root, call>>

\* os.Rename(tmpPath, filePath): the temporary file becomes the target.
SwRename ==
    /\ sw.pc = "rename"
    /\ sw' = [sw EXCEPT !.pc = "success", !.target = sw.tmp, !.tmp = AbsentFile,
                        !.renamed = TRUE]
    /\ UNCHANGED <<board, disk, save, faults, rt, root, call>>

\* tmpFile = nil; return nil
SwSuccess ==
    /\ sw.pc = "success"
    /\ sw' = [sw EXCEPT !.pc = "deferred", !.tmpFile = "nil"]
    /\ UNCHANGED <<board, disk, save, faults, rt, root, call>>

\* A system call returns an error and SafeWrite returns it: before the defer
\* statement directly, after it through the deferred function.
SwStepFails ==
    /\ sw.pc \in {"mkdirAll", "createTemp"} \cup (DeferredPcs \ {"success"})
    /\ sw' = IF sw.pc \in DeferredPcs
             THEN [sw EXCEPT !.pc = "deferred", !.err = sw.pc]
             ELSE [sw EXCEPT !.pc = "returned", !.err = sw.pc, !.result = "error"]
    /\ UNCHANGED <<board, disk, save, faults, rt, root, call>>

\* The deferred function runs and SafeWrite returns.
SwDeferred ==
    /\ sw.pc = "deferred"
    /\ sw' = [DeferredCleanup(sw) EXCEPT
                 !.pc = "returned",
                 !.result = IF sw.err = "none" THEN "ok" ELSE "error"]
    /\ UNCHANGED <<board, disk, save, faults, rt, root, call>>

\* The process is interrupted in the middle of SafeWrite.
SwCrash ==
    /\ SwRunning
    /\ sw' = [sw EXCEPT !.pc = "crashed"]
    /\ UNCHANGED <<board, disk, save, faults, rt, root, call>>

SwInit ==
    /\ \E pre \in {AbsentFile} \cup {FileOf(c) : c \in Contents} :
           \E data \in Contents : sw = SafeWriteCall(pre, data)
    /\ board = NewBoard
    /\ disk = EmptyDisk
    /\ save = NoSave
    /\ faults = 0
    /\ rt = NoRoundTrip
    /\ root = NoRoot
    /\ call = NoCall

SwNext ==
    \/ SwMkdirAll
    \/ SwCreateTemp
    \/ SwWriteByte
    \/ SwWriteReturns
    \/ SwSync
    \/ SwClose
    \/ SwChmod
    \/ SwRename
    \/ SwSuccess
    \/ SwStepFails
    \/ SwDeferred
    \/ SwCrash

SafeWriteSpec == SwInit /\ [][SwNext]_vars

-----------------------------------------------------------------------------
(* Properties of Save and FindByID.                                        *)

\* The last in-memory column that is written into directory k.
LastWithKey(b, k) ==
    b.columns[CHOOSE i \in DOMAIN b.columns :
                 /\ ColumnKey(b.columns[i]) = k
                 /\ \A j \in DOMAIN b.columns : j > i => ColumnKey(b.columns[j]) # k]

TaskWithFolder(col, f) ==
    col.tasks[CHOOSE i \in DOMAIN col.tasks : TaskIDString(col.tasks[i].id) = f]

\* The directories and the entity files under columns/.
ColumnsTree(d) ==
    [k \in DOMAIN d.cols |->
        [meta |-> d.cols[k].meta, content |-> d.cols[k].content,
         tasks |-> d.cols[k].tasks]]

\* The columns/ tree determined by the in-memory board alone.
BoardTree(b) ==
    [k \in ColumnKeys(b) |->
        LET col == LastWithKey(b, k)
        IN  [meta |-> YamlFile(ColumnMetadataToStorage(col)),
             content |-> ColumnContentToMarkdown(col),
             tasks |-> [f \in TaskFolders(col) |-> TaskDirOf(TaskWithFolder(col, f))]]]

\* The task directories that exist under some tasks/ of the tree.
AllTaskDirs(d) == UNION {DOMAIN d.cols[k].tasks : k \in DOMAIN d.cols}

\* What the properties compare of a column and of a task.
TaskView(t) ==
    [id |-> TaskIDString(t.id), title |-> t.title, description |-> t.description,
     priority |-> t.priority, status |-> t.status, tags |-> t.tags]
ColumnView(col) ==
    [displayName |-> col.displayName, description |-> col.description,
     order |-> col.order, wipLimit |-> col.wipLimit,
     tasks |-> {TaskView(col.tasks[i]) : i \in DOMAIN col.tasks}]
BoardView(b) == {ColumnView(b.columns[i]) : i \in DOMAIN b.columns}

DistinctKeys(b) ==
    \A i, j \in DOMAIN b.columns :
        ColumnKey(b.columns[i]) = ColumnKey(b.columns[j]) => i = j

\* C1: after Save returns success the directories directly under columns/
\* are exactly the normalized keys of the in-memory columns: every other
\* directory has been removed, every keyed directory exists.
C1_ColumnDirsAreKeys ==
    save.result = "ok" => DOMAIN disk.cols = ColumnKeys(board)

\* A successful Save has removed a column directory that existed when it began
\* and kept another one.
C1_Witness ==
    /\ save.result = "ok"
    /\ \E k \in DOMAIN save.start : k \notin DOMAIN disk.cols
    /\ \E k \in DOMAIN save.start : k \in DOMAIN disk.cols

\* C2: after Save returns success, for every in-memory column the directories
\* under columns/<key>/tasks/ are exactly the full task IDs of the column's
\* tasks.
C2_TaskDirsAreTasks ==
    save.result = "ok" =>
        \A i \in DOMAIN board.columns :
            /\ ColumnKey(board.columns[i]) \in DOMAIN disk.cols
            /\ DOMAIN disk.cols[ColumnKey(board.columns[i])].tasks
                  = TaskFolders(board.columns[i])

\* C3: FindByID followed by Save of the unmodified board removes no column
\* directory and no task directory, also when Load skipped one of them.
C3_SaveOfLoadedKeepsDirs ==
    (save.result = "ok" /\ save.fresh) =>
        \A k \in DOMAIN save.start :
            /\ k \in DOMAIN disk.cols
            /\ save.start[k] \subseteq DOMAIN disk.cols[k].tasks

\* C4: an entity absent from the in-memory board when Save returned success
\* is gone for the next FindByID, whatever layout generation the board was
\* stored in: every column it returns is an in-memory column and every task
\* of it is an in-memory task of that column.
C4_RemovedStaysRemoved ==
    (save.result = "ok" /\ DistinctKeys(board)) =>
        /\ FindByID(disk).ok
        /\ \A c \in BoardView(FindByID(disk).board) :
              \E m \in BoardView(board) :
                  /\ m.displayName = c.displayName
                  /\ c.tasks \subseteq m.tasks

\* C5: when Save is interrupted, every in-memory task that had a directory
\* before the Save began still has a directory in some column.
C5_InterruptedSaveKeepsTasks ==
    (save.failedOp = "crash" /\ DistinctKeys(board)) =>
        \A t \in BoardTasks(board) :
            (\E k \in DOMAIN save.start : TaskIDString(t.id) \in save.start[k])
                => TaskIDString(t.id) \in AllTaskDirs(disk)

\* C6: a successful Save, also one that follows a failed or interrupted Save
\* of the same board, leaves under columns/ the directories, task directories
\* and entity files that the in-memory board alone determines.
C6_SaveConverges ==
    save.result = "ok" => ColumnsTree(disk) = BoardTree(board)

\* A Save of a board with a task has succeeded after a Save of the same board
\* that failed or was interrupted.
C6_Witness ==
    /\ save.result = "ok"
    /\ save.afterFail
    /\ BoardTasks(board) # {}

\* C7: when a directory creation or a file write fails, Save has returned the
\* error at once (no step of it is pending), the failing step has changed
\* nothing, and no column directory that existed when Save began is removed.
C7_FailureAborts ==
    /\ [](save.failedOp \in {"mkdir", "write"} =>
            /\ save.result = "error"
            /\ Idle
            /\ \A k \in DOMAIN save.start : k \in DOMAIN disk.cols)
    /\ [][(save'.failedOp \in {"mkdir", "write"} /\ save.failedOp = "none")
            => (disk' = disk /\ save'.pc = "idle")]_vars

\* A write has failed and a directory of a column removed in memory is still
\* there, next to files the failed Save had already written.
C7_Witness ==
    /\ save.failedOp = "write"
    /\ save.result = "error"
    /\ \E k \in DOMAIN disk.cols : k \notin ColumnKeys(board)
    /\ disk.meta = YamlFile(BoardToStorage(board))

\* C10: for a board whose columns have pairwise distinct keys, FindByID after
\* a successful Save returns the same columns and, in each, the same tasks.
C10_RoundTrip ==
    (save.result = "ok" /\ DistinctKeys(board)) =>
        /\ FindByID(disk).ok
        /\ BoardView(FindByID(disk).board) = BoardView(board)

-----------------------------------------------------------------------------
(* Properties of SafeWrite.                                                *)

\* C8: at every step of SafeWrite the content readable at the target path is
\* its complete content from before the call (or the file is absent) or the
\* complete new data, and until the rename it is the content from before.
C8_TargetNeverPartial ==
    /\ sw.target \in {sw.pre, FileOf(sw.data)}
    /\ ~sw.renamed => sw.target = sw.pre

\* SafeWrite was interrupted while the temporary file held a part of the data
\* and the target held other content.
C8_Witness ==
    /\ sw.pc = "crashed"
    /\ sw.tmp.exists
    /\ sw.tmp.bytes # <<>>
    /\ sw.tmp.bytes # sw.data
    /\ sw.pre.exists
    /\ sw.pre.bytes # sw.tmp.bytes

\* C9: when a step of SafeWrite fails it returns an error, the target keeps
\* its content from before the call and no temporary file remains; when it
\* returns success the target holds the new data and no temporary file
\* remains.
C9_FailureLeavesTarget ==
    sw.pc = "returned" =>
        /\ sw.result = (IF sw.err = "none" THEN "ok" ELSE "error")
        /\ ~sw.tmp.exists
        /\ sw.result = "error" => sw.target = sw.pre
        /\ sw.result = "ok" => sw.target = FileOf(sw.data)

\* The rename has failed over an existing target with other content, and
\* SafeWrite has returned.
C9_Witness ==
    /\ sw.pc = "returned"
    /\ sw.err = "rename"
    /\ sw.pre.exists
    /\ sw.pre.bytes # sw.data

-----------------------------------------------------------------------------
(* The dates of one task through TaskToStorage and TaskFromStorage.  Times *)
(* are clock ticks; rt.now is time.Now().  A date that is not set (a nil   *)
(* *time.Time, a missing key) is the empty sequence, a set one <<t>>.      *)

\* The last tick of the model clock.
MaxClock == 3

\* Clock ticks in one second: time.RFC3339 keeps whole seconds.
TicksPerSecond == 2

\* t.Format(time.RFC3339): the second the tick lies in.
FormatRFC3339(t) == t \div TicksPerSecond

\* time.Parse(time.RFC3339, s): the first tick of the second.
ParseRFC3339(s) == s * TicksPerSecond

\* entity.NewTask: createdAt and modifiedAt are time.Now(), no due date, no
\* completed date.
NewTaskAt(now) ==
    [createdAt |-> now, modifiedAt |-> now, dueDate |-> <<>>,
     completedDate |-> <<>>, status |-> "todo"]

\* Task.SetDueDate: ErrDueDateInPast when the date is before time.Now().
SetDueDate(t, dueDate, now) ==
    IF dueDate < now THEN t
    ELSE [t EXCEPT !.dueDate = <<dueDate>>, !.modifiedAt = now]

\* A Task.UpdateStatus that stamps the completed date on every change to done.
UpdateStatusRestamp(t, status, now) ==
    [t EXCEPT !.status = status, !.modifiedAt = now,
              !.completedDate = IF status = "done" THEN <<now>> ELSE @]

\* Task.UpdateStatus: the completed date is set when the status becomes done
\* and none is set yet.
UpdateStatus(t, status, now) ==
    [t EXCEPT !.status = status, !.modifiedAt = now,
              !.completedDate = IF status = "done" /\ @ = <<>> THEN <<now>> ELSE @]

\* mapper.TaskToStorage: created and modified always, due_date and
\* completed_date when set, all formatted as RFC3339.
TaskDatesToStorage(t) ==
    [created |-> <<FormatRFC3339(t.createdAt)>>,
     modified |-> <<FormatRFC3339(t.modifiedAt)>>,
     due_date |-> IF t.dueDate = <<>> THEN <<>> ELSE <<FormatRFC3339(t.dueDate[1])>>,
     completed_date |-> IF t.completedDate = <<>> THEN <<>>
                        ELSE <<FormatRFC3339(t.completedDate[1])>>,
     status |-> t.status]

\* mapper.TaskFromStorage: entity.NewTask with the stored status, then
\* SetDueDate with the parsed due_date, its error discarded; created, modified
\* and completed_date are not read back.
TaskDatesFromStorage(doc, now) ==
    IF doc.due_date = <<>> THEN [NewTaskAt(now) EXCEPT !.status = doc.status]
    ELSE SetDueDate([NewTaskAt(now) EXCEPT !.status = doc.status],
                    ParseRFC3339(doc.due_date[1]), now)

\* time.Now() advances.
RtTick ==
    /\ rt.now < MaxClock
    /\ rt' = [rt EXCEPT !.now = @ + 1]
    /\ UNCHANGED <<board, disk, save, faults, sw, root, call>>

\* The caller sets a due date on the task.
RtSetDueDate(d) ==
    /\ rt.saved = <<>>
    /\ rt' = [rt EXCEPT !.task = SetDueDate(@, d, rt.now)]
    /\ UNCHANGED <<board, disk, save, faults, sw, root, call>>

\* The caller changes the status of the task.
RtUpdateStatus(status) ==
    /\ rt.saved = <<>>
    /\ rt' = [rt EXCEPT !.task = UpdateStatus(@, status, rt.now)]
    /\ UNCHANGED <<board, disk, save, faults, sw, root, call>>

\* saveTask: the task is stored; rt.saved remembers the task that was stored.
RtSave ==
    /\ rt.saved = <<>>
    /\ rt' = [rt EXCEPT !.doc = <<TaskDatesToStorage(rt.task)>>, !.saved = <<rt.task>>]
    /\ UNCHANGED <<board, disk, save, faults, sw, root, call>>

\* loadTask: the stored task is read back at the current time.
RtLoad ==
    /\ rt.doc # <<>>
    /\ rt' = [rt EXCEPT !.loaded = <<TaskDatesFromStorage(rt.doc[1], rt.now)>>]
    /\ UNCHANGED <<board, disk, save, faults, sw, root, call>>

RtInit ==
    /\ rt = [now |-> 0, task |-> NewTaskAt(0), doc |-> <<>>, saved |-> <<>>,
             loaded |-> <<>>]
    /\ board = NewBoard
    /\ disk = EmptyDisk
    /\ save = NoSave
    /\ faults = 0
    /\ sw = NoWrite
    /\ root = NoRoot
    /\ call = NoCall

RtNext ==
    \/ RtTick
    \/ \E d \in 0..MaxClock : RtSetDueDate(d)
    \/ \E status \in Statuses : RtUpdateStatus(status)
    \/ RtSave
    \/ RtLoad

TaskDatesSpec == RtInit /\ [][RtNext]_vars

\* The dates of a task as the stored form can carry them: whole seconds.
StoredDates(t) ==
    [createdAt |-> FormatRFC3339(t.createdAt),
     modifiedAt |-> FormatRFC3339(t.modifiedAt),
     dueDate |-> IF t.dueDate = <<>> THEN <<>> ELSE <<FormatRFC3339(t.dueDate[1])>>,
     completedDate |-> IF t.completedDate = <<>> THEN <<>>
                       ELSE <<FormatRFC3339(t.completedDate[1])>>]

\* C11: the task that Load returns has the due date, the completed date, the
\* created timestamp and the modified timestamp of the task that was saved,
\* also when the stored due date is in the past at the moment of loading.
C11_DatesRoundTrip ==
    rt.loaded # <<>> => StoredDates(rt.loaded[1]) = StoredDates(rt.saved[1])

-----------------------------------------------------------------------------
(* FindByID over board directories whose files have been edited, removed   *)
(* or left half-written outside the program.  call.edits counts the files  *)
(* changed so far; call.op, call.err and call.board are the last call and  *)
(* what it returned.                                                       *)

\* Largest number of files changed by hand in one behaviour.
MaxEdits == 2

\* A board with two columns and three tasks.
SampleBoard ==
    [columns |-> << [NewColumn(NameToDo) EXCEPT !.tasks = <<NewTask(1), NewTask(2)>>],
                    [NewColumn(NameDone) EXCEPT !.tasks = <<NewTask(3)>>] >>,
     nextTaskNum |-> 4]

\* The tree a successful Save of board b leaves in an empty directory.
SavedTree(b) ==
    [BoardFiles(EmptyDisk, b.nextTaskNum) EXCEPT
        !.hasColumns = TRUE,
        !.cols = [k \in ColumnKeys(b) |->
                     [EmptyColDir EXCEPT
                         !.meta = YamlFile(ColumnMetadataToStorage(LastWithKey(b, k))),
                         !.content = ColumnContentToMarkdown(LastWithKey(b, k)),
                         !.hasTasks = TRUE,
                         !.tasks = [f \in TaskFolders(LastWithKey(b, k)) |->
                                       TaskDirOf(TaskWithFolder(LastWithKey(b, k), f))]]]]

\* The tree of board b in the oldest layout: the columns directly under the
\* board directory, named by their display names, a front-matter column.md,
\* the tasks directly under the column directory.
LegacyTree(b) ==
    [BoardFiles(EmptyDisk, b.nextTaskNum) EXCEPT
        !.legacy = [name \in {b.columns[i].displayName : i \in DOMAIN b.columns} |->
                       [EmptyColDir EXCEPT
                           !.content = FmFile([order |-> OrderOf(name),
                                               wip_limit |-> WipLimitOf(name)], ""),
                           !.root = LET col == b.columns[CHOOSE i \in DOMAIN b.columns :
                                                   b.columns[i].displayName = name]
                                    IN  [f \in TaskFolders(col) |->
                                            TaskDirOf(TaskWithFolder(col, f))]]]]

\* The column directories loadColumns looks at, and the task directories
\* loadTasks looks at in column directory cd.
ColumnDirs(d) == IF d.hasColumns THEN d.cols ELSE d.legacy
TaskDirsIn(d, cd) == IF d.hasColumns /\ cd.hasTasks THEN cd.tasks ELSE cd.root

WithColumnDir(d, k, cd) ==
    IF d.hasColumns THEN [d EXCEPT !.cols[k] = cd] ELSE [d EXCEPT !.legacy[k] = cd]
WithTaskDir(d, cd, f, td) ==
    IF d.hasColumns /\ cd.hasTasks THEN [cd EXCEPT !.tasks[f] = td]
    ELSE [cd EXCEPT !.root[f] = td]

OtherShortID == <<"D", "E", "M", "O", "-", "9">>

\* What a hand edit can leave as the metadata.yml of a task: no file, a file
\* that is not YAML, no title, an unknown priority or status, another id, no
\* id.
TaskMetadataEdits(file) ==
    {Absent, CorruptFile} \cup
    (IF file.kind # "yaml" THEN {}
     ELSE {YamlFile(Del(file.fields, "title")),
           YamlFile(Put(file.fields, "priority", "urgent")),
           YamlFile(Put(file.fields, "status", "open")),
           YamlFile(Put(file.fields, "id", OtherShortID)),
           YamlFile(Del(file.fields, "id"))})

\* What a hand edit can leave as the metadata.yml of a column: no file, a
\* file that is not YAML, a work-in-progress limit of one.
ColumnMetadataEdits(file) ==
    {Absent, CorruptFile} \cup
    (IF file.kind # "yaml" THEN {}
     ELSE {YamlFile(Put(file.fields, "wip_limit", 1))})

\* What a hand edit can leave as the column.md of a column: no file, a front
\* matter block that is not YAML, a front-matter document, a heading that
\* names another column.
ColumnContentEdits ==
    {Absent, CorruptFile,
     FmFile([display_name |-> NameToDoDash, order |-> 1, wip_limit |-> 0], ""),
     MdFile(NameToDo, "")}

NoEdits == [op |-> "none", edits |-> 0]
CanEditFiles == disk.exists /\ call.edits < MaxEdits
AfterEdit == [op |-> "none", edits |-> call.edits + 1]

EditTaskMetadata(k, f, file) ==
    /\ CanEditFiles
    /\ file # TaskDirsIn(disk, ColumnDirs(disk)[k])[f].meta
    /\ disk' = WithColumnDir(disk, k,
                   WithTaskDir(disk, ColumnDirs(disk)[k], f,
                       [TaskDirsIn(disk, ColumnDirs(disk)[k])[f] EXCEPT !.meta = file]))
    /\ call' = AfterEdit
    /\ UNCHANGED <<board, save, faults, sw, rt, root>>

RemoveTaskMd(k, f) ==
    /\ CanEditFiles
    /\ TaskDirsIn(disk, ColumnDirs(disk)[k])[f].md # Absent
    /\ disk' = WithColumnDir(disk, k,
                   WithTaskDir(disk, ColumnDirs(disk)[k], f,
                       [TaskDirsIn(disk, ColumnDirs(disk)[k])[f] EXCEPT !.md = Absent]))
    /\ call' = AfterEdit
    /\ UNCHANGED <<board, save, faults, sw, rt, root>>

EditColumnMetadata(k, file) ==
    /\ CanEditFiles
    /\ file # ColumnDirs(disk)[k].meta
    /\ disk' = WithColumnDir(disk, k, [ColumnDirs(disk)[k] EXCEPT !.meta = file])
    /\ call' = AfterEdit
    /\ UNCHANGED <<board, save, faults, sw, rt, root>>

EditColumnContent(k, file) ==
    /\ CanEditFiles
    /\ file # ColumnDirs(disk)[k].content
    /\ disk' = WithColumnDir(disk, k, [ColumnDirs(disk)[k] EXCEPT !.content = file])
    /\ call' = AfterEdit
    /\ UNCHANGED <<board, save, faults, sw, rt, root>>

EditBoardMetadata(file) ==
    /\ CanEditFiles
    /\ file # disk.meta
    /\ disk' = [disk EXCEPT !.meta = file]
    /\ call' = AfterEdit
    /\ UNCHANGED <<board, save, faults, sw, rt, root>>

RemoveBoardContent ==
    /\ CanEditFiles
    /\ disk.content # Absent
    /\ disk' = [disk EXCEPT !.content = Absent]
    /\ call' = AfterEdit
    /\ UNCHANGED <<board, save, faults, sw, rt, root>>

\* The error FindByID returns for tree d, "none" when it returns the board.
FindByIDError(d) ==
    IF ~d.exists THEN "ErrBoardNotFound"
    ELSE IF ~LoadBoardMetadata(d).ok THEN "failed to load board metadata"
    ELSE IF ~LoadColumns(d).ok THEN "failed to load columns"
    ELSE "none"

\* What FindByID returns for tree d.
FindByIDResult(found, err, edits) ==
    [op |-> "FindByID", edits |-> edits, err |-> err,
     board |-> IF found.ok THEN found.board ELSE NewBoard]

\* The caller invokes FindByID(id) on the edited directory.
CallFindByID ==
    /\ call.op = "none"
    /\ call' = FindByIDResult(FindByID(disk), FindByIDError(disk), call.edits)
    /\ UNCHANGED <<board, disk, save, faults, sw, rt, root>>

LoadInit ==
    /\ disk \in {SavedTree(SampleBoard), LegacyTree(SampleBoard)}
    /\ call = NoEdits
    /\ board = NewBoard
    /\ save = NoSave
    /\ faults = 0
    /\ sw = NoWrite
    /\ rt = NoRoundTrip
    /\ root = NoRoot

LoadNext ==
    \/ \E k \in DOMAIN ColumnDirs(disk) :
           \E f \in DOMAIN TaskDirsIn(disk, ColumnDirs(disk)[k]) :
               \E file \in TaskMetadataEdits(TaskDirsIn(disk, ColumnDirs(disk)[k])[f].meta) :
                   EditTaskMetadata(k, f, file)
    \/ \E k \in DOMAIN ColumnDirs(disk) :
           \E f \in DOMAIN TaskDirsIn(disk, ColumnDirs(disk)[k]) : RemoveTaskMd(k, f)
    \/ \E k \in DOMAIN ColumnDirs(disk) :
           \E file \in ColumnMetadataEdits(ColumnDirs(disk)[k].meta) :
               EditColumnMetadata(k, file)
    \/ \E k \in DOMAIN ColumnDirs(disk) :
           \E file \in ColumnContentEdits : EditColumnContent(k, file)
    \/ \E file \in {Absent, CorruptFile} : EditBoardMetadata(file)
    \/ RemoveBoardContent
    \/ CallFindByID

LoadSpec == LoadInit /\ [][LoadNext]_vars

-----------------------------------------------------------------------------
(* Properties of FindByID on edited directories.                           *)

\* The names loadColumns / loadColumnsLegacy take for column directories and
\* the names loadTasks / loadTasksFromColumnRoot take for task directories.
ColumnListing(d) ==
    IF d.hasColumns THEN DOMAIN d.cols
    ELSE {k \in DOMAIN d.legacy :
             d.legacy[k].content.kind # "absent" \/ d.legacy[k].meta.kind # "absent"}
TaskListing(d, cd) ==
    IF d.hasColumns /\ cd.hasTasks THEN DOMAIN cd.tasks
    ELSE {f \in DOMAIN cd.root : IsTaskDirectory(f)}

\* The column directories whose own files are read and parsed, and the task
\* directories of a column whose files are read and parsed.
ReadableColumns(d) ==
    {k \in ColumnListing(d) : ColumnOf(ColumnDirs(d)[k], k).ok}
ReadableTasks(d, cd) ==
    {f \in TaskListing(d, cd) : LoadTask(TaskDirsIn(d, cd)[f], f).ok}

\* No readable task is refused by Column.AddTask and no readable column by
\* Board.AddColumn: the work-in-progress limits hold, task IDs and display
\* names are distinct.
NoRejection(d) ==
    /\ \A k \in ReadableColumns(d) :
          /\ \/ ColumnOf(ColumnDirs(d)[k], k).col.wipLimit = 0
             \/ Cardinality(ReadableTasks(d, ColumnDirs(d)[k]))
                    <= ColumnOf(ColumnDirs(d)[k], k).col.wipLimit
          /\ \A f, g \in ReadableTasks(d, ColumnDirs(d)[k]) :
                 ParseTaskID(f).id = ParseTaskID(g).id => f = g
    /\ \A k, l \in ReadableColumns(d) :
          ColumnOf(ColumnDirs(d)[k], k).col.displayName
              = ColumnOf(ColumnDirs(d)[l], l).col.displayName => k = l

\* The display names of the readable columns with the folder names of their
\* readable tasks.
ReadableView(d) ==
    {[displayName |-> ColumnOf(ColumnDirs(d)[k], k).col.displayName,
      tasks |-> ReadableTasks(d, ColumnDirs(d)[k])] : k \in ReadableColumns(d)}

\* The display names of the columns of a board with the IDs of their tasks.
LoadedView(b) ==
    {[displayName |-> b.columns[i].displayName,
      tasks |-> TaskFolders(b.columns[i])] : i \in DOMAIN b.columns}

\* C12: when no readable entity is refused on attachment and the board's own
\* files load, FindByID succeeds and returns exactly the readable columns,
\* each with exactly its readable tasks: a column or task directory that
\* cannot be read or parsed is left out and nothing else is.
C12_BadLeafSkipped ==
    (call.op = "FindByID" /\ LoadBoardMetadata(disk).ok /\ NoRejection(disk)) =>
        /\ call.err = "none"
        /\ LoadedView(call.board) = ReadableView(disk)

\* FindByID has returned a board from a directory in which one column
\* directory and one task directory of another column cannot be loaded, and a
\* sibling task of that task is returned.
C12_Witness ==
    /\ call.op = "FindByID"
    /\ call.err = "none"
    /\ \E k \in ColumnListing(disk) : k \notin ReadableColumns(disk)
    /\ \E k \in ReadableColumns(disk) :
          /\ \E f \in TaskListing(disk, ColumnDirs(disk)[k]) :
                 f \notin ReadableTasks(disk, ColumnDirs(disk)[k])
          /\ \E c \in LoadedView(call.board) :
                 c.tasks # {} /\ c.tasks \subseteq TaskListing(disk, ColumnDirs(disk)[k])


\* C13: when a readable task is refused by Column.AddTask or a readable
\* column by Board.AddColumn, FindByID still succeeds, every display name of
\* a readable column is the name of a returned column, and a returned column
\* is without tasks only when no column directory of that name has a readable
\* task.
C13_RejectedLeafSkipped ==
    (call.op = "FindByID" /\ LoadBoardMetadata(disk).ok) =>
        /\ call.err = "none"
        /\ {c.displayName : c \in ReadableView(disk)}
              = {m.displayName : m \in LoadedView(call.board)}
        /\ \A m \in LoadedView(call.board) :
              m.tasks = {} =>
                  \E c \in ReadableView(disk) :
                      c.displayName = m.displayName /\ c.tasks = {}


\* The id stored in the metadata.yml of task directory td, empty when the key
\* is missing, and the short ID that its folder name gives.
StoredID(td) == IF td.meta.kind = "yaml" THEN GetString(td.meta.fields, "id") ELSE <<>>
FolderShortID(f) == ShortID(ParseTaskID(f).id)

\* Task directory td would load if its metadata carried no id.
ReadableWithoutID(td, f) ==
    /\ td.meta.kind = "yaml"
    /\ LoadTask([td EXCEPT !.meta = YamlFile(Del(td.meta.fields, "id"))], f).ok

\* The tasks FindByID returned for the column of column directory k.
ReturnedTasks(b, d, k) ==
    UNION {Range(b.columns[i].tasks) : i \in
              {j \in DOMAIN b.columns :
                  b.columns[j].displayName = ColumnOf(ColumnDirs(d)[k], k).col.displayName}}

\* C14: of the task directories of a loaded column, one whose stored id is
\* not empty and differs from the short ID of its folder name is left out, one
\* that is readable and stores no id or the matching id is returned, and
\* every returned task carries the task ID parsed from its folder name.
C14_FolderIDIsAuthoritative ==
    (call.op = "FindByID" /\ call.err = "none" /\ NoRejection(disk)) =>
        \A k \in ReadableColumns(disk) :
            /\ \A f \in TaskListing(disk, ColumnDirs(disk)[k]) :
                  LET td == TaskDirsIn(disk, ColumnDirs(disk)[k])[f]
                      returned == \E t \in ReturnedTasks(call.board, disk, k) :
                                      TaskIDString(t.id) = f
                  IN  /\ (StoredID(td) # <<>> /\ StoredID(td) # FolderShortID(f))
                             => ~returned
                      /\ (ReadableWithoutID(td, f)
                              /\ StoredID(td) \in {<<>>, FolderShortID(f)})
                             => returned
            /\ \A t \in ReturnedTasks(call.board, disk, k) :
                  /\ TaskIDString(t.id) \in TaskListing(disk, ColumnDirs(disk)[k])
                  /\ t.id = ParseTaskID(TaskIDString(t.id)).id

\* FindByID has returned a column in which a task directory with another
\* stored id is left out, a sibling without stored id is returned under the
\* ID of its folder name.
C14_Witness ==
    /\ call.op = "FindByID"
    /\ call.err = "none"
    /\ \E k \in ReadableColumns(disk) :
          \E f, g \in TaskListing(disk, ColumnDirs(disk)[k]) :
              /\ StoredID(TaskDirsIn(disk, ColumnDirs(disk)[k])[f]) = OtherShortID
              /\ TaskDirsIn(disk, ColumnDirs(disk)[k])[g].meta.kind = "yaml"
              /\ StoredID(TaskDirsIn(disk, ColumnDirs(disk)[k])[g]) = <<>>
              /\ \A t \in ReturnedTasks(call.board, disk, k) : TaskIDString(t.id) = g
              /\ ReturnedTasks(call.board, disk, k) # {}


\* C17: a board directory that holds metadata.yml and no board.md loads:
\* FindByID returns the board.
C17_HalfMigratedBoardLoads ==
    (call.op = "FindByID" /\ disk.meta.kind = "yaml" /\ disk.content.kind = "absent")
        => call.err = "none"

\* The layout generation the files of column directory cd are loaded as: the
\* split pair when both files are read, else legacy when column.md is read
\* and parses as front matter, else metadata.yml alone, else none.
Generation(cd) ==
    IF cd.meta.kind # "absent" /\ cd.content.kind # "absent" THEN "split"
    ELSE IF cd.content.kind \in {"md", "fm", "text"} THEN "legacy"
    ELSE IF cd.meta.kind # "absent" THEN "metadataOnly"
    ELSE "none"

\* The column that generation gives for column directory cd named k.
HeaderOf(cd, k) ==
    CASE Generation(cd) = "split" ->
             [displayName |-> IF cd.content.kind = "md" THEN cd.content.title ELSE k,
              description |-> ContentBody(cd.content),
              order |-> GetInt(cd.meta.fields, "order"),
              wipLimit |-> GetInt(cd.meta.fields, "wip_limit")]
      [] Generation(cd) = "legacy" ->
             [displayName |-> IF cd.content.kind = "fm"
                                    /\ "display_name" \in DOMAIN cd.content.fields
                              THEN cd.content.fields.display_name ELSE k,
              description |-> IF cd.content.kind = "fm"
                              THEN GetWord(cd.content.fields, "description") ELSE "",
              order |-> IF cd.content.kind = "fm" THEN GetInt(cd.content.fields, "order")
                        ELSE 0,
              wipLimit |-> IF cd.content.kind = "fm"
                           THEN GetInt(cd.content.fields, "wip_limit") ELSE 0]
      [] Generation(cd) = "metadataOnly" ->
             [displayName |-> k, description |-> "",
              order |-> GetInt(cd.meta.fields, "order"),
              wipLimit |-> GetInt(cd.meta.fields, "wip_limit")]

\* The column directories that load: a generation is found and the
\* metadata.yml it uses is YAML.
LoadingColumns(d) ==
    {k \in ColumnListing(d) :
        /\ Generation(ColumnDirs(d)[k]) # "none"
        /\ Generation(ColumnDirs(d)[k]) \in {"split", "metadataOnly"}
               => ColumnDirs(d)[k].meta.kind = "yaml"}

HeaderView(b) ==
    {[displayName |-> b.columns[i].displayName, description |-> b.columns[i].description,
      order |-> b.columns[i].order, wipLimit |-> b.columns[i].wipLimit] :
        i \in DOMAIN b.columns}

\* C18: the columns FindByID returns are those of the column directories,
\* under columns/ or directly under the board directory, for which a layout
\* generation is found in the order split pair, front-matter column.md,
\* metadata.yml alone, each with the display name, description, order and
\* limit that generation gives.
C18_GenerationOrder ==
    (call.op = "FindByID" /\ call.err = "none" /\ NoRejection(disk)) =>
        HeaderView(call.board) =
            {HeaderOf(ColumnDirs(disk)[k], k) : k \in LoadingColumns(disk)}

\* FindByID has returned one column loaded from metadata.yml alone and one
\* loaded from a column.md alone.
C18_Witness ==
    /\ call.op = "FindByID"
    /\ call.err = "none"
    /\ Len(call.board.columns) = 2
    /\ \E k, l \in ColumnListing(disk) :
          /\ Generation(ColumnDirs(disk)[k]) = "metadataOnly"
          /\ Generation(ColumnDirs(disk)[l]) = "legacy"

-----------------------------------------------------------------------------
(* The boards root: FindAll, and FindByID, Exists and Delete by name.  An  *)
(* entry of the root is a board directory with its tree or a regular file. *)

EntryNames == {<<"a">>, <<"b">>, <<"c">>}

FileEntry == [kind |-> "file"]
DirEntry(tree) == [kind |-> "dir", tree |-> tree]

\* A board directory as Save leaves it when it is interrupted after
\* EnsureDir(boardDir) and before metadata.yml is written.
InterruptedTree == [EmptyDisk EXCEPT !.exists = TRUE]

\* A saved board in which column.md of two column directories has the same
\* heading.
DuplicateNameTree ==
    [SavedTree(SampleBoard) EXCEPT
        !.cols[Generate(NameDone)].content = MdFile(NameToDo, "")]

RootTrees ==
    {SavedTree(SampleBoard), LegacyDisk, InterruptedTree, DuplicateNameTree,
     [SavedTree(SampleBoard) EXCEPT !.meta = CorruptFile]}
RootEntries == {FileEntry} \cup {DirEntry(t) : t \in RootTrees}

\* filesystem.Exists(boardDir): os.Stat succeeds for a directory and for a
\* regular file.
Exists(r, id) == id \in DOMAIN r

\* FindByID(id) under the boards root r: the files of the board cannot be
\* read when the path is a regular file.
FindByIDAt(r, id) ==
    IF ~Exists(r, id) THEN [ok |-> FALSE, err |-> "ErrBoardNotFound"]
    ELSE IF r[id].kind = "file"
    THEN [ok |-> FALSE, err |-> "failed to load board metadata"]
    ELSE [ok |-> FindByID(r[id].tree).ok, err |-> FindByIDError(r[id].tree)]

RECURSIVE FindAllStrict(_, _, _)
\* A FindAll that returns the error of the first board it cannot load.
FindAllStrict(r, names, boards) ==
    IF names = <<>> THEN [err |-> "none", boards |-> boards]
    ELSE IF r[Head(names)].kind # "dir" THEN FindAllStrict(r, Tail(names), boards)
    ELSE IF ~FindByIDAt(r, Head(names)).ok
    THEN [err |-> FindByIDAt(r, Head(names)).err, boards |-> <<>>]
    ELSE FindAllStrict(r, Tail(names),
                       Append(boards, FindByID(r[Head(names)].tree).board))

RECURSIVE FindAllEntries(_, _, _)
\* The loop of FindAll over the listing of the root: an entry that is not a
\* directory and a board that FindByID cannot load are skipped.
FindAllEntries(r, names, boards) ==
    IF names = <<>> THEN [err |-> "none", boards |-> boards]
    ELSE IF r[Head(names)].kind # "dir" THEN FindAllEntries(r, Tail(names), boards)
    ELSE IF ~FindByIDAt(r, Head(names)).ok THEN FindAllEntries(r, Tail(names), boards)
    ELSE FindAllEntries(r, Tail(names),
                        Append(boards, FindByID(r[Head(names)].tree).board))

\* Something outside the repository creates or replaces an entry of the root.
PutEntry(id, e) ==
    /\ ~(id \in DOMAIN root /\ root[id] = e)
    /\ root' = Put(root, id, e)
    /\ call' = NoCall
    /\ UNCHANGED <<board, disk, save, faults, sw, rt>>

CallFindAll ==
    /\ call' = [op |-> "FindAll",
                ret |-> FindAllEntries(root, SortedNames(DOMAIN root), <<>>)]
    /\ UNCHANGED <<board, disk, save, faults, sw, rt, root>>

RootFindByID(id) ==
    /\ call' = [op |-> "FindByID", id |-> id, err |-> FindByIDAt(root, id).err]
    /\ UNCHANGED <<board, disk, save, faults, sw, rt, root>>

RootExists(id) ==
    /\ call' = [op |-> "Exists", id |-> id, ret |-> Exists(root, id)]
    /\ UNCHANGED <<board, disk, save, faults, sw, rt, root>>

\* Delete(id): ErrBoardNotFound when nothing is at the path, else RemoveDir.
\* call.wasDir remembers whether a directory was at the path.
RootDelete(id) ==
    /\ call' = [op |-> "Delete", id |-> id,
                err |-> IF Exists(root, id) THEN "none" ELSE "ErrBoardNotFound",
                wasDir |-> id \in DOMAIN root /\ root[id].kind = "dir"]
    /\ root' = IF Exists(root, id) THEN Del(root, id) ELSE root
    /\ UNCHANGED <<board, disk, save, faults, sw, rt>>

RootInit ==
    /\ root = EmptyFn
    /\ call = NoCall
    /\ board = NewBoard
    /\ disk = EmptyDisk
    /\ save = NoSave
    /\ faults = 0
    /\ sw = NoWrite
    /\ rt = NoRoundTrip

RootNext ==
    \/ \E id \in EntryNames : \E e \in RootEntries : PutEntry(id, e)
    \/ CallFindAll
    \/ \E id \in EntryNames : RootFindByID(id)
    \/ \E id \in EntryNames : RootExists(id)
    \/ \E id \in EntryNames : RootDelete(id)

RootSpec == RootInit /\ [][RootNext]_vars

\* A board directory is at the path.
IsBoardDir(r, id) == id \in DOMAIN r /\ r[id].kind = "dir"

\* C15: FindByID and Delete return ErrBoardNotFound exactly when no board
\* directory is at the path, FindByID returns another error for a board
\* directory that does not load, and Exists is true exactly when the board
\* directory exists.
C15_NotFoundIffNoDirectory ==
    /\ call.op = "FindByID" =>
          /\ call.err = "ErrBoardNotFound" <=> ~IsBoardDir(root, call.id)
          /\ (IsBoardDir(root, call.id) /\ ~FindByID(root[call.id].tree).ok)
                 => call.err \notin {"none", "ErrBoardNotFound"}
    /\ call.op = "Delete" => (call.err = "ErrBoardNotFound" <=> ~call.wasDir)
    /\ call.op = "Exists" => (call.ret <=> IsBoardDir(root, call.id))

\* C16: FindAll returns no error and, in the order of the listing, the board
\* of every directory of the root that FindByID loads, and nothing else.
C16_FindAllSkipsUnloadable ==
    call.op = "FindAll" =>
        /\ call.ret.err = "none"
        /\ LET names == SortedNames({id \in DOMAIN root :
                            IsBoardDir(root, id) /\ FindByID(root[id].tree).ok})
           IN  call.ret.boards = [i \in 1..Len(names) |-> FindByID(root[names[i]].tree).board]

\* FindAll has returned two boards from a root that also holds a board
\* directory FindByID cannot load.
C16_Witness ==
    /\ call.op = "FindAll"
    /\ Len(call.ret.boards) = 2
    /\ \E id \in DOMAIN root :
          IsBoardDir(root, id) /\ ~FindByID(root[id].tree).ok

-----------------------------------------------------------------------------
(* The three migrations of the board directory.                            *)

\* The rename at which a migration meets an I/O error; NoStop when every
\* os.Rename succeeds.
NoStop == <<"none">>

\* What a migration returns, with the tree it leaves.
Migrated(d, err) == [disk |-> d, err |-> err]

\* MigrateColumnsToSubdirectory: the directories of the board directory that
\* hold a column.md or a metadata.yml.
LegacyColumnNames(d) ==
    {k \in DOMAIN d.legacy :
        d.legacy[k].content.kind # "absent" \/ d.legacy[k].meta.kind # "absent"}

\* The os.Rename loop of MigrateColumnsToSubdirectory: an error returns at
\* once and leaves the directories already moved under columns/.
RECURSIVE MoveColumns(_, _, _)
MoveColumns(d, names, stop) ==
    IF names = <<>> THEN Migrated(d, "none")
    ELSE IF Head(names) = stop THEN Migrated(d, "failed to move column")
    ELSE MoveColumns([d EXCEPT !.cols = Put(d.cols, Head(names), d.legacy[Head(names)]),
                               !.legacy = Del(d.legacy, Head(names))],
                     Tail(names), stop)

\* MigrateColumnsToSubdirectory: nothing to do once columns/ exists or when
\* the board directory holds no column directory; else columns/ is created
\* and every column directory is moved into it.
MigrateColumnsToSubdirectory(d, stop) ==
    IF ~d.exists THEN Migrated(d, "failed to read board directory")
    ELSE IF d.hasColumns THEN Migrated(d, "none")
    ELSE IF LegacyColumnNames(d) = {} THEN Migrated(d, "none")
    ELSE MoveColumns([d EXCEPT !.hasColumns = TRUE],
                     SortedNames(LegacyColumnNames(d)), stop)

\* The os.Rename loop of MigrateTasksToSubdirectory in column directory k.
RECURSIVE MoveTasks(_, _, _, _)
MoveTasks(cd, k, names, stop) ==
    IF names = <<>> THEN [dir |-> cd, err |-> "none"]
    ELSE IF <<k, Head(names)>> = stop THEN [dir |-> cd, err |-> "failed to move task"]
    ELSE MoveTasks([cd EXCEPT !.tasks = Put(cd.tasks, Head(names), cd.root[Head(names)]),
                              !.root = Del(cd.root, Head(names))],
                   k, Tail(names), stop)

\* The body of the loop of MigrateTasksToSubdirectory for column directory
\* k: skipped once tasks/ exists, when it is not a column directory and when
\* it holds no task directory.
MigrateColumnTasks(cd, k, stop) ==
    IF cd.hasTasks THEN [dir |-> cd, err |-> "none"]
    ELSE IF cd.meta.kind = "absent" /\ cd.content.kind = "absent"
    THEN [dir |-> cd, err |-> "none"]
    ELSE IF {f \in DOMAIN cd.root : IsTaskDirectory(f)} = {}
    THEN [dir |-> cd, err |-> "none"]
    ELSE MoveTasks([cd EXCEPT !.hasTasks = TRUE], k,
                   SortedNames({f \in DOMAIN cd.root : IsTaskDirectory(f)}), stop)

\* The result of one column written back into the tree.
AfterColumnTasks(d, k, r) == Migrated(WithColumnDir(d, k, r.dir), r.err)

\* The loop of MigrateTasksToSubdirectory over the column directories: an
\* error returns at once.
RECURSIVE MigrateTasksIn(_, _, _)
MigrateTasksIn(r, names, stop) ==
    IF names = <<>> \/ r.err # "none" THEN r
    ELSE MigrateTasksIn(
             AfterColumnTasks(r.disk, Head(names),
                 MigrateColumnTasks(ColumnDirs(r.disk)[Head(names)], Head(names), stop)),
             Tail(names), stop)

\* MigrateTasksToSubdirectory: the column directories of columns/ when it
\* exists, else those of the board directory.
MigrateTasksToSubdirectory(d, stop) ==
    IF ~d.exists THEN Migrated(d, "failed to read columns directory")
    ELSE MigrateTasksIn(Migrated(d, "none"), SortedNames(DOMAIN ColumnDirs(d)), stop)

\* os.Rename(oldColumnDir, newColumnDir): fails on an existing directory
\* that is not empty, replaces an empty one.
CanRename(d, to) == to \notin DOMAIN d.cols \/ d.cols[to] = EmptyColDir
RenameColumn(d, from, to) ==
    [d EXCEPT !.cols = Put(Del(d.cols, from), to, d.cols[from])]

\* The metadata.yml and the column.md MigrateColumnsToNewFormat writes from
\* the front matter of column.md in the directory first named folder.
NewFormatOf(cd, folder) ==
    [cd EXCEPT
        !.meta = YamlFile([order |-> GetInt(FrontmatterOf(cd.content), "order"),
                           wip_limit |-> GetInt(FrontmatterOf(cd.content), "wip_limit")]),
        !.content = MdFile(IF GetString(FrontmatterOf(cd.content), "display_name") = <<>>
                           THEN folder
                           ELSE GetString(FrontmatterOf(cd.content), "display_name"),
                           GetWord(FrontmatterOf(cd.content), "description"))]

\* The directories MigrateColumnsToNewFormat rewrites: no metadata.yml, a
\* column.md that ParseFrontmatter accepts.
NeedsNewFormat(cd) ==
    /\ cd.meta.kind = "absent"
    /\ cd.content.kind # "absent"
    /\ FrontmatterOk(cd.content)

\* The SafeWrite of metadata.yml in the directory first named k meets an
\* I/O error.
WriteStop(k) == <<"write">> \o k

\* The loop of MigrateColumnsToNewFormat over the entries read at the start.
RECURSIVE ConvertColumns(_, _, _)
ConvertColumns(d, names, stop) ==
    IF names = <<>> THEN Migrated(d, "none")
    ELSE IF Head(names) \notin DOMAIN d.cols THEN ConvertColumns(d, Tail(names), stop)
    ELSE IF ~NeedsNewFormat(d.cols[Head(names)]) THEN ConvertColumns(d, Tail(names), stop)
    ELSE IF Generate(Head(names)) = Head(names)
    THEN IF stop = WriteStop(Head(names))
         THEN Migrated(d, "failed to write metadata.yml")
         ELSE ConvertColumns([d EXCEPT !.cols[Head(names)] = NewFormatOf(@, Head(names))],
                             Tail(names), stop)
    ELSE IF Head(names) = stop \/ ~CanRename(d, Generate(Head(names)))
    THEN Migrated(d, "failed to rename column folder")
    ELSE IF stop = WriteStop(Head(names))
    THEN Migrated(RenameColumn(d, Head(names), Generate(Head(names))),
                  "failed to write metadata.yml")
    ELSE ConvertColumns(
             [d EXCEPT !.cols = Put(Del(d.cols, Head(names)), Generate(Head(names)),
                                    NewFormatOf(d.cols[Head(names)], Head(names)))],
             Tail(names), stop)

\* MigrateColumnsToNewFormat: the entries are read from columns/ when it
\* exists, else from the board directory, but every path is built by the
\* PathBuilder under columns/, so that nothing is found in the second case.
MigrateColumnsToNewFormat(d, stop) ==
    IF ~d.exists THEN Migrated(d, "failed to read columns directory")
    ELSE IF ~d.hasColumns THEN Migrated(d, "none")
    ELSE ConvertColumns(d, SortedNames(DOMAIN d.cols), stop)

\* The migrations by name.
MigrationNames ==
    {"MigrateColumnsToSubdirectory", "MigrateTasksToSubdirectory",
     "MigrateColumnsToNewFormat"}
Migrate(op, d, stop) ==
    IF op = "MigrateColumnsToSubdirectory" THEN MigrateColumnsToSubdirectory(d, stop)
    ELSE IF op = "MigrateTasksToSubdirectory" THEN MigrateTasksToSubdirectory(d, stop)
    ELSE MigrateColumnsToNewFormat(d, stop)

\* The renames a migration can fail at.
ColumnStops(d) == DOMAIN d.legacy \cup DOMAIN d.cols
WriteStops(d) == {WriteStop(k) : k \in DOMAIN d.cols}
TaskStops(d) ==
    UNION {{<<k, f>> : f \in DOMAIN ColumnDirs(d)[k].root} : k \in DOMAIN ColumnDirs(d)}

\* The board of the columns named in names: To Do holds two tasks, to-do
\* one, Done none.
TasksOfName(name) ==
    IF name = NameToDo THEN <<NewTask(1), NewTask(2)>>
    ELSE IF name = NameToDoDash THEN <<NewTask(3)>>
    ELSE <<>>
BoardWith(names) ==
    [columns |-> [i \in 1..Len(names) |->
                     [NewColumn(names[i]) EXCEPT !.tasks = TasksOfName(names[i])]],
     nextTaskNum |-> 4]
MigrationBoards ==
    {BoardWith(<<NameToDo>>), BoardWith(<<NameDone>>), BoardWith(<<NameToDo, NameDone>>),
     BoardWith(<<NameToDo, NameToDoDash>>), BoardWith(<<NameToDo, NameToDoDash, NameDone>>)}

\* What FindByID returns: the columns with their tasks, or an error.
FoundView(r) == IF r.ok THEN [ok |-> TRUE, columns |-> BoardView(r.board)] ELSE Failed

\* The record of the migrations called so far: the last operation, its
\* error, whether a step of it was made to fail, whether no step was ever
\* made to fail, what FindByID returned before the first migration, and the
\* tree on which MigrateColumnsToNewFormat was first called when the last
\* calls are a failed MigrateColumnsToNewFormat and its re-runs.
NoMigration(d) ==
    [op |-> "none", err |-> "none", fault |-> FALSE, clean |-> TRUE,
     loaded |-> FoundView(FindByID(d)), start |-> EmptyDisk]
MigrationResult(op, r, stop) ==
    [op |-> op, err |-> r.err, fault |-> stop # NoStop,
     clean |-> call.clean /\ stop = NoStop, loaded |-> call.loaded,
     start |-> IF op # "MigrateColumnsToNewFormat" THEN EmptyDisk
               ELSE IF call.op = op /\ call.err # "none" THEN call.start
               ELSE disk]

\* The program calls a migration on the board directory.
CallMigrateColumnsToSubdirectory(stop) ==
    /\ \E r \in {MigrateColumnsToSubdirectory(disk, stop)} :
           /\ disk' = r.disk
           /\ call' = MigrationResult("MigrateColumnsToSubdirectory", r, stop)
    /\ UNCHANGED <<board, save, faults, sw, rt, root>>

CallMigrateTasksToSubdirectory(stop) ==
    /\ \E r \in {MigrateTasksToSubdirectory(disk, stop)} :
           /\ disk' = r.disk
           /\ call' = MigrationResult("MigrateTasksToSubdirectory", r, stop)
    /\ UNCHANGED <<board, save, faults, sw, rt, root>>

CallMigrateColumnsToNewFormat(stop) ==
    /\ \E r \in {MigrateColumnsToNewFormat(disk, stop)} :
           /\ disk' = r.disk
           /\ call' = MigrationResult("MigrateColumnsToNewFormat", r, stop)
    /\ UNCHANGED <<board, save, faults, sw, rt, root>>

MigrationInit ==
    /\ disk \in {LegacyTree(b) : b \in MigrationBoards}
                    \cup {SavedTree(b) : b \in MigrationBoards}
    /\ call = NoMigration(disk)
    /\ board = NewBoard
    /\ save = NoSave
    /\ faults = 0
    /\ sw = NoWrite
    /\ rt = NoRoundTrip
    /\ root = NoRoot

MigrationNext ==
    \/ \E stop \in ColumnStops(disk) \cup {NoStop} : CallMigrateColumnsToSubdirectory(stop)
    \/ \E stop \in TaskStops(disk) \cup {NoStop} : CallMigrateTasksToSubdirectory(stop)
    \/ \E stop \in ColumnStops(disk) \cup WriteStops(disk) \cup {NoStop} :
           CallMigrateColumnsToNewFormat(stop)

MigrationSpec == MigrationInit /\ [][MigrationNext]_vars

\* The column directories left directly under the board directory and the
\* task directories left directly under a column directory.
ColumnsInLegacyLocation(d) == LegacyColumnNames(d)
TasksInLegacyLocation(d) ==
    {<<k, f>> \in TaskStops(d) :
        f \in DOMAIN ColumnDirs(d)[k].root /\ IsTaskDirectory(f)
            /\ (ColumnDirs(d)[k].meta.kind # "absent"
                    \/ ColumnDirs(d)[k].content.kind # "absent")}

\* C19: after a run of any of the three migrations in which no rename met an
\* I/O error, a second run of the same migration returns success and leaves
\* the tree as it is.
C19_MigrationIdempotent ==
    (call.op \in MigrationNames /\ ~call.fault)
        => Migrate(call.op, disk, NoStop) = Migrated(disk, "none")

\* C20: a successful MigrateColumnsToSubdirectory leaves no column directory
\* directly under the board directory, and a successful
\* MigrateTasksToSubdirectory leaves no task directory directly under a
\* column directory.
C20_NothingLeftInLegacyLocation ==
    /\ (call.op = "MigrateColumnsToSubdirectory" /\ call.err = "none")
           => ColumnsInLegacyLocation(disk) = {}
    /\ (call.op = "MigrateTasksToSubdirectory" /\ call.err = "none")
           => TasksInLegacyLocation(disk) = {}

\* C21: after any sequence of the three migrations in which no rename met
\* an I/O error, FindByID returns the columns (display name, description,
\* order, wip_limit) and the tasks of each column that it returned before the
\* sequence.
C21_MigrationKeepsLoad ==
    (call.op \in MigrationNames /\ call.clean)
        => FoundView(FindByID(disk)) = call.loaded

\* The column directories with a front-matter column.md and no metadata.yml.
IsLegacyColumn(cd) == cd.meta.kind = "absent" /\ cd.content.kind = "fm"
KeyAfterNewFormat(dirs, k) == IF IsLegacyColumn(dirs[k]) THEN Generate(k) ELSE k
SourceOfKey(dirs, n) == CHOOSE k \in DOMAIN dirs : KeyAfterNewFormat(dirs, k) = n

\* The column directories after the conversion of the legacy ones: renamed
\* to the normalized key, with metadata.yml and the rewritten column.md; the
\* others as they are.
ConvertedDirs(dirs) ==
    [n \in {KeyAfterNewFormat(dirs, k) : k \in DOMAIN dirs} |->
        IF IsLegacyColumn(dirs[SourceOfKey(dirs, n)])
        THEN NewFormatOf(dirs[SourceOfKey(dirs, n)], SourceOfKey(dirs, n))
        ELSE dirs[SourceOfKey(dirs, n)]]
ExpectedNewFormat(d) ==
    IF d.hasColumns THEN [d EXCEPT !.cols = ConvertedDirs(d.cols)]
    ELSE [d EXCEPT !.legacy = ConvertedDirs(d.legacy)]

\* C22: when MigrateColumnsToNewFormat returns success, also as the re-run
\* of a run that failed, every column directory that had a front-matter
\* column.md and no metadata.yml, under columns/ or directly under the board
\* directory, is named by its normalized key and holds the metadata.yml and
\* the column.md of its legacy values, and every other directory is as it
\* was.
C22_NewFormatResult ==
    (call.op = "MigrateColumnsToNewFormat" /\ call.err = "none")
        => disk = ExpectedNewFormat(call.start)

-----------------------------------------------------------------------------
(* The identity of a board: the name of its directory under the boards     *)
(* root and the id stored in its metadata.yml.  In the other               *)
(* specifications the stored id is the name of the directory.              *)

BoardIDs == {"demo", "home", "work"}

\* The tree Save leaves for board b with ID id: BoardToStorage writes
\* board.ID() into metadata.yml.
SavedTreeAs(b, id) ==
    [SavedTree(b) EXCEPT !.meta = YamlFile([BoardToStorage(b) EXCEPT !.id = id])]

\* A new board with one column and no task.
FirstBoard == [columns |-> <<NewColumn(NameDone)>>, nextTaskNum |-> 1]

\* mapper.BoardFromStorage: the ID of the board is the id of metadata.yml.
StoredBoardID(d) == GetWord(d.meta.fields, "id")

\* loadColumns(board): the columns are read under BoardDir(board.ID()).
LoadColumnsOf(r, bid) ==
    IF ~Exists(r, bid) THEN Failed ELSE LoadColumns(r[bid])

\* FindByID(id) under the boards root r: loadBoardMetadata reads the files
\* of directory id, and the board it builds names the directory of the
\* columns.
LoadedAt(r, id, meta) ==
    IF ~meta.ok THEN [err |-> "failed to load board metadata"]
    ELSE IF ~LoadColumnsOf(r, StoredBoardID(r[id])).ok
    THEN [err |-> "failed to load columns"]
    ELSE [err |-> "none", boardID |-> StoredBoardID(r[id]),
          board |-> [columns |-> LoadColumnsOf(r, StoredBoardID(r[id])).columns,
                     nextTaskNum |-> meta.nextTaskNum]]
FindByIDIn(r, id) ==
    IF ~Exists(r, id) THEN [err |-> "ErrBoardNotFound"]
    ELSE LoadedAt(r, id, LoadBoardMetadata(r[id]))

NothingLoaded == [op |-> "none", err |-> "none"]
HoldsBoard == call.op \in {"FindByID", "CreateTask", "Save"} /\ call.err = "none"

\* Someone renames or copies a board directory under the boards root.
RenameBoardDir(from, to) ==
    /\ from \in DOMAIN root /\ to \notin DOMAIN root
    /\ root' = Put(Del(root, from), to, root[from])
    /\ call' = NothingLoaded
    /\ UNCHANGED <<board, disk, save, faults, sw, rt>>

CopyBoardDir(from, to) ==
    /\ from \in DOMAIN root /\ to \notin DOMAIN root
    /\ root' = Put(root, to, root[from])
    /\ call' = NothingLoaded
    /\ UNCHANGED <<board, disk, save, faults, sw, rt>>

\* The caller loads board id.
IdFindByID(id) ==
    /\ \E found \in {FindByIDIn(root, id)} :
           /\ call' = [op |-> "FindByID", id |-> id, err |-> found.err,
                       boardID |-> IF found.err = "none" THEN found.boardID ELSE ""]
           /\ board' = IF found.err = "none" THEN found.board ELSE board
    /\ UNCHANGED <<disk, save, faults, sw, rt, root>>

\* BoardService.CreateTask on the loaded board, before its Save.
IdCreateTask ==
    /\ HoldsBoard
    /\ board.nextTaskNum <= MaxTaskNum
    /\ board.columns # <<>>
    /\ CanAddTask(board.columns[1])
    /\ board' = [board EXCEPT !.columns[1].tasks = Append(@, NewTask(board.nextTaskNum)),
                              !.nextTaskNum = @ + 1]
    /\ call' = [call EXCEPT !.op = "CreateTask"]
    /\ UNCHANGED <<disk, save, faults, sw, rt, root>>

\* Save(board) of the loaded board: every path is under BoardDir(board.ID()).
IdSave ==
    /\ HoldsBoard
    /\ root' = Put(root, call.boardID, SavedTreeAs(board, call.boardID))
    /\ call' = [call EXCEPT !.op = "Save"]
    /\ UNCHANGED <<board, disk, save, faults, sw, rt>>

IdentityInit ==
    /\ root = Put(EmptyFn, BoardID, SavedTreeAs(FirstBoard, BoardID))
    /\ call = NothingLoaded
    /\ board = NewBoard
    /\ disk = EmptyDisk
    /\ save = NoSave
    /\ faults = 0
    /\ sw = NoWrite
    /\ rt = NoRoundTrip

IdentityNext ==
    \/ \E from, to \in BoardIDs : RenameBoardDir(from, to)
    \/ \E from, to \in BoardIDs : CopyBoardDir(from, to)
    \/ \E id \in BoardIDs : IdFindByID(id)
    \/ IdCreateTask
    \/ IdSave

IdentitySpec == IdentityInit /\ [][IdentityNext]_vars

\* C23: the board FindByID(id) returns has ID() = id, and the Save of that
\* board writes into the directory it was loaded from.
C23_DirectoryNameIsBoardID ==
    (call.op \in {"FindByID", "CreateTask", "Save"} /\ call.err = "none")
        => call.boardID = call.id

-----------------------------------------------------------------------------
(* Properties of the column directory key.                                 *)

\* C24: after Save returns success no two in-memory columns share a
\* normalized key, every in-memory column has a directory of its own under
\* columns/ and every in-memory task has its task directory.
C24_KeysAreUnique ==
    save.result = "ok" =>
        /\ DistinctKeys(board)
        /\ Cardinality(DOMAIN disk.cols) = Len(board.columns)
        /\ \A t \in BoardTasks(board) : TaskIDString(t.id) \in AllTaskDirs(disk)

\* C25: the directory saveColumn creates for a column is slug.Generate of
\* its display name and of nothing else, and while the directories under
\* columns/ are the keys of the in-memory columns no step of Save creates,
\* moves or removes a column directory.
C25_KeyIsPure ==
    [][/\ (save.pc = "colDir" /\ save'.pc = "colMeta")
              => DOMAIN disk'.cols
                    = DOMAIN disk.cols \cup {Generate(board.columns[save.ci].displayName)}
       /\ (~Idle /\ disk.hasColumns
              /\ DOMAIN disk.cols
                    = {Generate(board.columns[i].displayName) : i \in DOMAIN board.columns})
              => DOMAIN disk'.cols = DOMAIN disk.cols]_vars

\* A Save of a board with columns has returned success directly after a
\* successful Save of the same, unchanged board.
C25_Witness ==
    /\ save.result = "ok"
    /\ save.again
    /\ board.columns # <<>>

-----------------------------------------------------------------------------
(* The task counter of the board through the use cases that create and     *)
(* delete tasks: each loads the board, changes it and saves it.            *)

MaxMinted == 3

\* A new board with two columns, no task, and the counter at 1.
CounterBoard ==
    [columns |-> <<NewColumn(NameToDo), NewColumn(NameDone)>>, nextTaskNum |-> 1]

\* Board.GenerateNextTaskID: the counter is returned and advanced.
GenerateNextTaskID(b) ==
    [number |-> b.nextTaskNum, board |-> [b EXCEPT !.nextTaskNum = @ + 1]]

\* BoardService.CreateTask between FindByID and Save: the board with the new
\* task in column i.
WithCreatedTask(b, i) ==
    [GenerateNextTaskID(b).board EXCEPT
        !.columns[i].tasks = Append(@, NewTask(GenerateNextTaskID(b).number))]

\* BoardService.DeleteTask between FindByID and Save.
WithoutTask(b, i, j) ==
    [b EXCEPT !.columns[i].tasks = SubSeq(@, 1, j - 1) \o SubSeq(@, j + 1, Len(@))]

\* The numbers CreateTask has returned so far, and the last call.
NothingMinted == [op |-> "none", err |-> "none", number |-> 0, minted |-> {}, before |-> {}]

\* CreateTask(boardID, column i, ...) returns the new task.
CtCreateTask(i) ==
    /\ \E found \in {FindByID(disk)} :
           /\ found.ok
           /\ i \in DOMAIN found.board.columns
           /\ found.board.nextTaskNum <= MaxMinted
           /\ CanAddTask(found.board.columns[i])
           /\ disk' = SavedTree(WithCreatedTask(found.board, i))
           /\ call' = [op |-> "CreateTask", err |-> "none",
                       number |-> GenerateNextTaskID(found.board).number,
                       minted |-> call.minted \cup {GenerateNextTaskID(found.board).number},
                       before |-> call.minted]
    /\ UNCHANGED <<board, save, faults, sw, rt, root>>

\* CreateTask returns the error of Save: the SafeWrite of the board's
\* metadata.yml failed (written = FALSE) or a later step did.
CtCreateTaskFails(i, written) ==
    /\ faults < MaxFaults
    /\ faults' = faults + 1
    /\ \E found \in {FindByID(disk)} :
           /\ found.ok
           /\ i \in DOMAIN found.board.columns
           /\ found.board.nextTaskNum <= MaxMinted
           /\ CanAddTask(found.board.columns[i])
           /\ disk' = IF written
                      THEN [disk EXCEPT !.meta =
                               YamlFile(BoardToStorage(WithCreatedTask(found.board, i)))]
                      ELSE disk
           /\ call' = [call EXCEPT !.op = "CreateTask", !.err = "failed to save board",
                                   !.number = 0, !.before = call.minted]
    /\ UNCHANGED <<board, save, sw, rt, root>>

\* DeleteTask(boardID, taskID) of task j of column i.
CtDeleteTask(i, j) ==
    /\ \E found \in {FindByID(disk)} :
           /\ found.ok
           /\ i \in DOMAIN found.board.columns
           /\ j \in DOMAIN found.board.columns[i].tasks
           /\ disk' = SavedTree(WithoutTask(found.board, i, j))
           /\ call' = [call EXCEPT !.op = "DeleteTask", !.err = "none", !.number = 0,
                                   !.before = call.minted]
    /\ UNCHANGED <<board, save, faults, sw, rt, root>>

CounterInit ==
    /\ disk = SavedTree(CounterBoard)
    /\ call = NothingMinted
    /\ board = NewBoard
    /\ save = NoSave
    /\ faults = 0
    /\ sw = NoWrite
    /\ rt = NoRoundTrip
    /\ root = NoRoot

CounterNext ==
    \/ \E i \in 1..MaxColumns : CtCreateTask(i)
    \/ \E i \in 1..MaxColumns : \E written \in BOOLEAN : CtCreateTaskFails(i, written)
    \/ \E i \in 1..MaxColumns : \E j \in 1..MaxMinted : CtDeleteTask(i, j)

CounterSpec == CounterInit /\ [][CounterNext]_vars

\* The numbers of the tasks of a board.
TaskNumbers(b) ==
    UNION {{b.columns[i].tasks[j].id.number : j \in DOMAIN b.columns[i].tasks} :
              i \in DOMAIN b.columns}

\* C26: the number CreateTask gives a new task was never given before, and
\* the counter FindByID restores is above every number given so far, also
\* after tasks were deleted.
C26_CounterIsMonotonic ==
    /\ (call.op = "CreateTask" /\ call.err = "none") => call.number \notin call.before
    /\ FindByID(disk).ok
    /\ \A n \in call.minted : n < FindByID(disk).board.nextTaskNum

\* CreateTask has returned a task after the task with the highest number
\* was deleted.
C26_Witness ==
    /\ call.op = "CreateTask" /\ call.err = "none"
    /\ call.before # {}
    /\ \A n \in call.before : n \notin TaskNumbers(FindByID(disk).board)

-----------------------------------------------------------------------------
(* One task entity under its own operations.  rt.task is the task with its *)
(* tags; rt.firstDone is the time of the first operation that set its      *)
(* status to done (empty before), rt.dones counts the operations that      *)
(* changed the status from another one to done, and rt.last is the last    *)
(* tag operation with the tag list it was applied to.                      *)

\* The tags a caller or a stored task may name.
TagNames == {"bug", "ui", "urgent"}

\* The longest tags list of a stored task.
MaxStoredTags == 3

\* Task.ClearDueDate
ClearDueDate(t, now) == [t EXCEPT !.dueDate = <<>>, !.modifiedAt = now]

\* Task.UpdateTitle, UpdateDescription, UpdatePriority, SetMetadata and
\* RemoveMetadata: the field they set is not part of the model, modifiedAt is.
UpdateTitle(t, now) == [t EXCEPT !.modifiedAt = now]

\* Task.MarkAsCompleted: UpdateStatus(done), then the completed date when it
\* is still not set.
MarkAsCompleted(t, now) ==
    LET u == UpdateStatus(t, "done", now)
    IN  [u EXCEPT !.completedDate = IF @ = <<>> THEN <<now>> ELSE @]

\* A Task.AddTag that appends without looking for the tag.
AddTagAlways(t, tag, now) ==
    [t EXCEPT !.tags = Append(@, tag), !.modifiedAt = now]

\* Task.AddTag: nothing when the tag is present, else the tag is appended.
AddTag(t, tag, now) ==
    IF tag \in Range(t.tags) THEN t
    ELSE [t EXCEPT !.tags = Append(@, tag), !.modifiedAt = now]

\* Task.RemoveTag: the first element equal to the tag is removed.
RemoveTag(t, tag, now) ==
    IF tag \notin Range(t.tags) THEN t
    ELSE LET i == CHOOSE k \in DOMAIN t.tags :
                      /\ t.tags[k] = tag
                      /\ \A l \in 1..(k - 1) : t.tags[l] # tag
         IN  [t EXCEPT !.tags = SubSeq(@, 1, i - 1) \o SubSeq(@, i + 1, Len(@)),
                       !.modifiedAt = now]

RECURSIVE AddEach(_, _, _)
\* mapper.TaskFromStorage: task.AddTag(tag) for each tag of the stored list.
AddEach(t, tags, now) ==
    IF tags = <<>> THEN t ELSE AddEach(AddTag(t, Head(tags), now), Tail(tags), now)

\* The stored tags lists: every list of up to MaxStoredTags tag names, with
\* repetitions.
StoredTagLists == UNION {[1..n -> TagNames] : n \in 0..MaxStoredTags}

\* entity.NewTask with the status it is given: no completed date, no tags.
NewTaskWith(status, now) ==
    [createdAt |-> now, modifiedAt |-> now, dueDate |-> <<>>,
     completedDate |-> <<>>, status |-> status, tags |-> <<>>]

NoTagOp == [op |-> "none", tag |-> "", before |-> <<>>]

\* The ghost fields after an operation that leaves the task as t; toDone
\* says that the operation set the status to done.
Noted(t, toDone, last) ==
    [rt EXCEPT !.task = t,
               !.firstDone = IF @ = <<>> /\ toDone THEN <<rt.now>> ELSE @,
               !.dones = IF toDone /\ rt.task.status # "done" /\ @ < 2
                         THEN @ + 1 ELSE @,
               !.last = last]

TkTick ==
    /\ rt.now < MaxClock
    /\ rt' = [rt EXCEPT !.now = @ + 1]
    /\ UNCHANGED <<board, disk, save, faults, sw, root, call>>

TkUpdateStatus(status) ==
    /\ rt' = Noted(UpdateStatus(rt.task, status, rt.now), status = "done", NoTagOp)
    /\ UNCHANGED <<board, disk, save, faults, sw, root, call>>

TkMarkAsCompleted ==
    /\ rt' = Noted(MarkAsCompleted(rt.task, rt.now), TRUE, NoTagOp)
    /\ UNCHANGED <<board, disk, save, faults, sw, root, call>>

TkSetDueDate(d) ==
    /\ rt' = Noted(SetDueDate(rt.task, d, rt.now), FALSE, NoTagOp)
    /\ UNCHANGED <<board, disk, save, faults, sw, root, call>>

TkClearDueDate ==
    /\ rt' = Noted(ClearDueDate(rt.task, rt.now), FALSE, NoTagOp)
    /\ UNCHANGED <<board, disk, save, faults, sw, root, call>>

TkUpdateTitle ==
    /\ rt' = Noted(UpdateTitle(rt.task, rt.now), FALSE, NoTagOp)
    /\ UNCHANGED <<board, disk, save, faults, sw, root, call>>

TkAddTag(tag) ==
    /\ rt' = Noted(AddTag(rt.task, tag, rt.now), FALSE,
                   [op |-> "AddTag", tag |-> tag, before |-> rt.task.tags])
    /\ UNCHANGED <<board, disk, save, faults, sw, root, call>>

TkRemoveTag(tag) ==
    /\ rt' = Noted(RemoveTag(rt.task, tag, rt.now), FALSE,
                   [op |-> "RemoveTag", tag |-> tag, before |-> rt.task.tags])
    /\ UNCHANGED <<board, disk, save, faults, sw, root, call>>

\* TaskFromStorage: the stored tags are added one by one to the task NewTask
\* returned.
TkLoadTags(tags) ==
    /\ \E status \in Statuses : rt.task = NewTaskWith(status, rt.now)
    /\ rt' = Noted(AddEach(rt.task, tags, rt.now), FALSE,
                   [op |-> "TaskFromStorage", tag |-> "", before |-> tags])
    /\ UNCHANGED <<board, disk, save, faults, sw, root, call>>

TaskOpsInit ==
    /\ \E status \in Statuses :
           rt = [now |-> 0, task |-> NewTaskWith(status, 0), firstDone |-> <<>>,
                 dones |-> 0, last |-> NoTagOp]
    /\ board = NewBoard
    /\ disk = EmptyDisk
    /\ save = NoSave
    /\ faults = 0
    /\ sw = NoWrite
    /\ root = NoRoot
    /\ call = NoCall

TaskOpsNext ==
    \/ TkTick
    \/ \E status \in Statuses : TkUpdateStatus(status)
    \/ TkMarkAsCompleted
    \/ \E d \in {0, MaxClock} : TkSetDueDate(d)
    \/ TkClearDueDate
    \/ TkUpdateTitle
    \/ \E tag \in TagNames : TkAddTag(tag)
    \/ \E tag \in TagNames : TkRemoveTag(tag)
    \/ \E tags \in StoredTagLists : TkLoadTags(tags)

TaskOpsSpec == TaskOpsInit /\ [][TaskOpsNext]_vars

\* C27: the completed date of a task is not set before an operation first
\* sets its status to done, is the time of that operation from then on, and
\* is neither cleared nor replaced by UpdateStatus, MarkAsCompleted or any
\* other operation on the task, also when the status leaves done and becomes
\* done again.
C27_CompletedDateKept == rt.task.completedDate = rt.firstDone

\* The task became done, left done and became done again at a later time.
C27_Witness ==
    /\ rt.dones = 2
    /\ rt.task.status = "done"
    /\ rt.firstDone # <<>>
    /\ rt.firstDone[1] < rt.task.modifiedAt

\* The position of the first element of q equal to x.
FirstIndexOf(q, x) == CHOOSE i \in DOMAIN q : q[i] = x /\ \A j \in 1..(i - 1) : q[j] # x

\* q without the elements equal to x.
Without(q, x) == SelectSeq(q, LAMBDA y : y # x)

\* C28: the tag list of a task never holds a tag twice; AddTag of a tag that
\* is present leaves the list as it was and AddTag of a new tag puts it at
\* the end; RemoveTag takes the tag out and keeps the order of the others;
\* the tags added while a task is loaded are the stored tags, each once, in
\* the order of their first occurrence in the stored list.
C28_TagsAreOrderedSet ==
    LET tags == rt.task.tags
        before == rt.last.before
    IN  /\ \A i, j \in DOMAIN tags : tags[i] = tags[j] => i = j
        /\ rt.last.op = "AddTag" =>
               tags = IF rt.last.tag \in Range(before) THEN before
                      ELSE Append(before, rt.last.tag)
        /\ rt.last.op = "RemoveTag" => tags = Without(before, rt.last.tag)
        /\ rt.last.op = "TaskFromStorage" =>
               /\ Range(tags) = Range(before)
               /\ \A i, j \in DOMAIN tags :
                      i < j => FirstIndexOf(before, tags[i]) < FirstIndexOf(before, tags[j])

\* AddTag was called with a tag that is already in a list of two or more.
C28_Witness ==
    /\ rt.last.op = "AddTag"
    /\ rt.last.tag \in Range(rt.last.before)
    /\ Len(rt.last.before) >= 2
    /\ rt.last.before[1] # rt.last.tag

-----------------------------------------------------------------------------
(* The daemon: one goroutine per connection (acceptConnections), each      *)
(* handling one request under Server.mu.  call.req[r] is the request of    *)
(* goroutine r: its type, its position pc and the number of Saves its use  *)
(* case still makes; call.exists says that the directory of the board of   *)
(* the active session exists.  All requests name that board.               *)
(*   idle     no request                                                   *)
(*   lock     decoded, about to call RLock or Lock                         *)
(*   waiting  blocked inside Lock                                          *)
(*   run      holds the lock, the use case starts                          *)
(*   sync     SyncSessionBoardUseCase.Execute starts                       *)
(*   loading  inside FindByID or FindAll                                   *)
(*   create   BoardService.CreateBoard starts                              *)
(*   save     about to call Save                                           *)
(*   saving   inside Save                                                  *)
(*   done     the use case returned, the deferred unlock is next           *)

\* The goroutines that handle requests at the same time.
MaxRequests == 2

Requests == 1..MaxRequests

\* The handlers that take Server.mu.RLock.
ReadTypes == {"get_board", "list_boards", "get_active_board"}

\* The handlers that take Server.mu.Lock; add_task stands for create_board,
\* add_task, move_task, update_task, delete_task, add_column, delete_column.
WriteTypes == {"add_task"}

NoRequest == [type |-> "none", pc |-> "idle", saves |-> 0]

\* The goroutines between their lock call returning and their unlock.
Holders == {r \in Requests : call.req[r].pc \in {"run", "sync", "loading", "create",
                                                  "save", "saving", "done"}}

ReadHolders == {r \in Holders : call.req[r].type \in ReadTypes}

WriteHolders == {r \in Holders : call.req[r].type \in WriteTypes}

\* The goroutines blocked in Lock.
Waiting == {r \in Requests : call.req[r].pc = "waiting"}

\* The goroutines inside BoardRepository.Save.
Saving == {r \in Requests : call.req[r].pc = "saving"}

\* The goroutines inside BoardRepository.FindByID or FindAll.
Loading == {r \in Requests : call.req[r].pc = "loading"}

At(r, pc) == [call EXCEPT !.req[r].pc = pc]

DaemonFrame == UNCHANGED <<board, disk, save, faults, sw, rt, root>>

\* handleConnection: a request is decoded and handleRequest picks its handler.
HandleRequest(r, type) ==
    /\ call.req[r].pc = "idle"
    /\ call' = [call EXCEPT !.req[r] = [type |-> type, pc |-> "lock", saves |-> 0]]
    /\ DaemonFrame

\* s.mu.RLock(): returns when no goroutine holds or waits for the write lock.
RLock(r) ==
    /\ call.req[r].pc = "lock"
    /\ call.req[r].type \in ReadTypes
    /\ WriteHolders = {}
    /\ Waiting = {}
    /\ call' = At(r, "run")
    /\ DaemonFrame

\* s.mu.Lock(): returns at once when nobody holds the lock, blocks otherwise.
Lock(r) ==
    /\ call.req[r].pc = "lock"
    /\ call.req[r].type \in WriteTypes
    /\ call' = At(r, IF Holders = {} THEN "run" ELSE "waiting")
    /\ DaemonFrame

\* The blocked Lock returns when the holders have unlocked.
LockReturns(r) ==
    /\ call.req[r].pc = "waiting"
    /\ Holders = {}
    /\ call' = At(r, "run")
    /\ DaemonFrame

\* GetBoardUseCase, ListBoardsUseCase and the use cases of the write handlers
\* start with FindByID or FindAll.
UseCaseLoads(r) ==
    /\ call.req[r].pc = "run"
    /\ call.req[r].type # "get_active_board"
    /\ call' = At(r, "loading")
    /\ DaemonFrame

\* GetActiveSessionBoardUseCase.Execute: without an active session, or when
\* the board of the session exists, it returns; when the board does not
\* exist it calls SyncSessionBoardUseCase.Execute.
GetActiveSessionBoard(r, session) ==
    /\ call.req[r].pc = "run"
    /\ call.req[r].type = "get_active_board"
    /\ call' = At(r, IF session /\ ~call.exists THEN "sync" ELSE "done")
    /\ DaemonFrame

\* getOrCreateBoard: FindByID of the board of the session.
GetOrCreateBoard(r) ==
    /\ call.req[r].pc = "sync"
    /\ call' = At(r, "loading")
    /\ DaemonFrame

\* FindByID or FindAll returns.  The read use cases return; a write use case
\* goes on to change and save the board it found; getOrCreateBoard goes on to
\* Sync and Save with a board it found and to CreateBoard without one.
LoadReturns(r) ==
    /\ call.req[r].pc = "loading"
    /\ call' = [call EXCEPT !.req[r] =
                   IF @.type \in {"get_board", "list_boards"} THEN [@ EXCEPT !.pc = "done"]
                   ELSE IF @.type = "get_active_board" /\ ~call.exists
                   THEN [@ EXCEPT !.pc = "create"]
                   ELSE IF call.exists THEN [@ EXCEPT !.pc = "save", !.saves = 1]
                   ELSE [@ EXCEPT !.pc = "done"]]
    /\ DaemonFrame

\* BoardService.CreateBoard: ErrBoardAlreadyExists when the directory exists,
\* else Save of the new board; getOrCreateBoard then saves it with the default
\* columns and Execute saves it after Sync.
CreateBoardOfSession(r) ==
    /\ call.req[r].pc = "create"
    /\ call' = [call EXCEPT !.req[r] =
                   IF call.exists THEN [@ EXCEPT !.pc = "done"]
                   ELSE [@ EXCEPT !.pc = "save", !.saves = 3]]
    /\ DaemonFrame

\* BoardRepository.Save is entered: it creates the board directory first.
SaveEntered(r) ==
    /\ call.req[r].pc = "save"
    /\ call' = [call EXCEPT !.req[r].pc = "saving", !.exists = TRUE]
    /\ DaemonFrame

\* BoardRepository.Save returns.
SaveLeft(r) ==
    /\ call.req[r].pc = "saving"
    /\ call' = [call EXCEPT !.req[r].saves = @ - 1,
                            !.req[r].pc = IF call.req[r].saves > 1 THEN "save" ELSE "done"]
    /\ DaemonFrame

\* The deferred s.mu.RUnlock() or s.mu.Unlock(); the response is sent.
Unlock(r) ==
    /\ call.req[r].pc = "done"
    /\ call' = [call EXCEPT !.req[r] = NoRequest]
    /\ DaemonFrame

DaemonInit ==
    /\ \E exists \in BOOLEAN :
           call = [req |-> [r \in Requests |-> NoRequest], exists |-> exists]
    /\ board = NewBoard
    /\ disk = EmptyDisk
    /\ save = NoSave
    /\ faults = 0
    /\ sw = NoWrite
    /\ rt = NoRoundTrip
    /\ root = NoRoot

DaemonNext ==
    \E r \in Requests :
        \/ \E type \in ReadTypes \cup WriteTypes : HandleRequest(r, type)
        \/ RLock(r)
        \/ Lock(r)
        \/ LockReturns(r)
        \/ UseCaseLoads(r)
        \/ \E session \in BOOLEAN : GetActiveSessionBoard(r, session)
        \/ GetOrCreateBoard(r)
        \/ LoadReturns(r)
        \/ CreateBoardOfSession(r)
        \/ SaveEntered(r)
        \/ SaveLeft(r)
        \/ Unlock(r)

DaemonSpec == DaemonInit /\ [][DaemonNext]_vars

\* C29: at most one Save is in flight at any time and no load overlaps a
\* Save; every goroutine that is about to call or is inside
\* BoardRepository.Save holds the write lock of the server and no handler
\* that took the read lock reaches Save.
C29_SavesAreSerialized ==
    /\ Cardinality(Saving) <= 1
    /\ Saving # {} => Loading = {}
    /\ \A r \in Requests :
           call.req[r].pc \in {"save", "saving"} => call.req[r].type \in WriteTypes

-----------------------------------------------------------------------------
(* Properties of the paths Save writes.                                    *)

\* The task directories directly under the column directories of columns/,
\* with their files.
ColumnRootTasks(d) ==
    UNION {{<<k, id, d.cols[k].root[id]>> : id \in DOMAIN d.cols[k].root} :
           k \in DOMAIN d.cols}

\* C30: no step of Save creates, changes or removes a column directory
\* directly under the board directory or a task directory directly under a
\* column directory; whatever Save changes is the board's metadata.yml and
\* board.md, columns/<key> with its metadata.yml and column.md, and
\* columns/<key>/tasks/<taskID> with its metadata.yml and task.md.
C30_SaveLeavesLegacyAlone ==
    [][/\ disk'.legacy = disk.legacy
       /\ ColumnRootTasks(disk') = ColumnRootTasks(disk)]_vars

-----------------------------------------------------------------------------
(* Properties of the task listing of a column.                             *)

\* The columns of a board when the tasks of every column are read by the
\* rule of loadTasks, wherever the column directory lies.
ColumnsByLoadTasks(d) ==
    Reordered(
        IF d.hasColumns
        THEN LoadColumnEntries(d.cols, SortedNames(DOMAIN d.cols), FALSE,
                               [ok |-> TRUE, columns |-> <<>>])
        ELSE LoadColumnEntries(d.legacy,
                 SortedNames({k \in DOMAIN d.legacy :
                     d.legacy[k].content.kind # "absent"
                         \/ d.legacy[k].meta.kind # "absent"}),
                 FALSE, [ok |-> TRUE, columns |-> <<>>]))

\* C31: the tasks FindByID returns for a column are those of its tasks/
\* subdirectory when it exists and otherwise those of the entries of the
\* column directory whose names parse as task IDs, for a column under
\* columns/ and for a column directly under the board directory alike.
C31_TasksSubdirectoryPreferred ==
    \A found \in {FindByID(disk)} :
        found.ok => LET cols == ColumnsByLoadTasks(disk)
                    IN  cols.ok /\ found.board.columns = cols.columns

-----------------------------------------------------------------------------
(* mapper.TaskFromStorage on the metadata a task directory may hold.  A    *)
(* key of the stored block is present with one of the listed values or     *)
(* missing; call records the block, the task ID of the folder and what     *)
(* the mapper returned.                                                    *)

\* The values each key of a stored task may have, each wrapped in a
\* sequence; the empty sequence stands for a missing key.
StoredIDs == {<<>>, <<ShortID(NewTask(1).id)>>, <<OtherShortID>>}
StoredTitles == {<<>>, <<TitleOf(1)>>, << <<>> >>}
StoredPriorities == {<<>>, <<"high">>, <<"urgent">>, <<"">>}
StoredStatuses == {<<>>, <<"done">>, <<"open">>, <<"">>}
StoredTags == {<<>>, << <<"urgent">> >>, << <<"urgent", "ui", "urgent">> >>}

\* The key/value block with the keys that are present.
StoredTask(id, title, priority, status, tags) ==
    LET all == [id |-> id, title |-> title, priority |-> priority,
                status |-> status, tags |-> tags]
    IN  [k \in {key \in DOMAIN all : all[key] # <<>>} |-> all[k][1]]

StoredTaskDocs ==
    {StoredTask(id, title, priority, status, tags) :
        id \in StoredIDs, title \in StoredTitles, priority \in StoredPriorities,
        status \in StoredStatuses, tags \in StoredTags}

\* loadTask hands the parsed metadata.yml, the body of task.md and the task
\* ID of the folder name to the mapper.
CallTaskFromStorage(doc) ==
    /\ call = NoCall
    /\ call' = [op |-> "TaskFromStorage", fields |-> doc, id |-> NewTask(1).id,
                result |-> TaskFromStorage(doc, "body", NewTask(1).id)]
    /\ UNCHANGED <<board, disk, save, faults, sw, rt, root>>

TaskMapperInit ==
    /\ call = NoCall
    /\ board = NewBoard
    /\ disk = EmptyDisk
    /\ save = NoSave
    /\ faults = 0
    /\ sw = NoWrite
    /\ rt = NoRoundTrip
    /\ root = NoRoot

TaskMapperNext == \E doc \in StoredTaskDocs : CallTaskFromStorage(doc)

TaskMapperSpec == TaskMapperInit /\ [][TaskMapperNext]_vars

\* C32: TaskFromStorage returns an error and no task, or a task with the ID
\* of the folder, the stored title, a priority and a status of the
\* enumerations and a tag list; a missing title is an error, a missing
\* priority is none, a missing status is todo, and a priority or status that
\* does not parse is an error.
C32_TaskOrError ==
    call.op = "TaskFromStorage" =>
        LET f == call.fields
            r == call.result
        IN  /\ ~r.ok => r = Failed
            /\ r.ok =>
                   /\ DOMAIN r = {"ok", "task"}
                   /\ DOMAIN r.task = {"id", "title", "description", "priority",
                                       "status", "tags"}
                   /\ r.task.id = call.id
                   /\ r.task.title # <<>> /\ r.task.title = f.title
                   /\ r.task.priority \in Priorities
                   /\ r.task.status \in Statuses
                   /\ r.task.priority = (IF GetWord(f, "priority") = "" THEN "none"
                                         ELSE f.priority)
                   /\ r.task.status = (IF GetWord(f, "status") = "" THEN "todo"
                                       ELSE f.status)
            /\ GetString(f, "title") = <<>> => ~r.ok
            /\ GetWord(f, "priority") \notin Priorities \cup {""} => ~r.ok
            /\ GetWord(f, "status") \notin Statuses \cup {""} => ~r.ok

\* A stored task without priority and status was mapped to a task.
C32_Witness ==
    /\ call.op = "TaskFromStorage"
    /\ "priority" \notin DOMAIN call.fields
    /\ "status" \notin DOMAIN call.fields
    /\ call.result.ok
    /\ call.result.task.priority = "none"
    /\ call.result.task.status = "todo"

-----------------------------------------------------------------------------
(* Front matter: SerializeFrontmatter and ParseFrontmatter on documents    *)
(* that are sequences of lines.  A string is the sequence of its lines; a  *)
(* line of text is [kind |-> "text", indent, text], where indent says      *)
(* whether the line begins with spaces.  yaml.Marshal writes a one-line    *)
(* string as "key: value" (quoted where YAML needs it) and a string of     *)
(* several lines in literal style: "key: |-" and the lines of the string,  *)
(* indented.  call holds the block and the body handed to                  *)
(* SerializeFrontmatter, the lines it wrote and what ParseFrontmatter made *)
(* of them.                                                                *)

\* The longest body, in lines.
MaxBodyLines == 2

\* const yamlDelimiter
yamlDelimiter == "---"

\* The lines of text of the model: an empty line, a word, the delimiter.
LineTexts == {"", "text", yamlDelimiter}

TextLine(indent, text) == [kind |-> "text", indent |-> indent, text |-> text]

\* The keys of the blocks of the model, in the order yaml.Marshal writes them.
FrontmatterKeys == <<"description", "title">>

\* The string values of the model: one line, the delimiter alone, several
\* lines, several lines with the delimiter among them.
FrontmatterValues ==
    {<<"text">>, <<yamlDelimiter>>, <<"text", "text">>, <<"text", yamlDelimiter, "text">>}

\* The key/value blocks: the empty block and every block over the keys.
FrontmatterBlocks ==
    UNION {[keys -> FrontmatterValues] : keys \in SUBSET Range(FrontmatterKeys)}

\* The bodies: up to MaxBodyLines lines.
Bodies == UNION {[1..n -> LineTexts] : n \in 0..MaxBodyLines}

\* yaml.Marshal of one key.
MarshalKey(key, value) ==
    IF Len(value) = 1
    THEN << [kind |-> "scalar", indent |-> FALSE, key |-> key, value |-> value[1]] >>
    ELSE << [kind |-> "literal", indent |-> FALSE, key |-> key] >>
         \o [i \in 1..Len(value) |-> TextLine(TRUE, value[i])]

RECURSIVE YamlMarshalKeys(_, _)
YamlMarshalKeys(fm, keys) ==
    IF keys = <<>> THEN <<>>
    ELSE (IF Head(keys) \in DOMAIN fm THEN MarshalKey(Head(keys), fm[Head(keys)]) ELSE <<>>)
         \o YamlMarshalKeys(fm, Tail(keys))

\* yaml.Marshal of a map: its keys in sorted order.
YamlMarshal(fm) == YamlMarshalKeys(fm, FrontmatterKeys)

\* The number of lines of a literal block at the head of lines.
RECURSIVE LiteralLength(_)
LiteralLength(lines) ==
    IF lines = <<>> \/ Head(lines).kind # "text" \/ ~Head(lines).indent THEN 0
    ELSE 1 + LiteralLength(Tail(lines))

RECURSIVE YamlUnmarshal(_, _)
\* yaml.Unmarshal into a map: "key: value" lines and literal blocks; a line
\* of text that belongs to no block is an error.
YamlUnmarshal(lines, fields) ==
    IF lines = <<>> THEN [ok |-> TRUE, fields |-> fields]
    ELSE IF Head(lines).kind = "scalar"
    THEN YamlUnmarshal(Tail(lines), Put(fields, Head(lines).key, <<Head(lines).value>>))
    ELSE IF Head(lines).kind = "literal"
    THEN LET n == LiteralLength(Tail(lines))
         IN  YamlUnmarshal(SubSeq(lines, n + 2, Len(lines)),
                 Put(fields, Head(lines).key,
                     IF n = 0 THEN <<"">>
                     ELSE [i \in 1..n |-> lines[i + 1].text]))
    ELSE Failed

\* SerializeFrontmatter: the delimiter, the YAML of a block that is not
\* empty, the delimiter, the content when it is not empty.
SerializeFrontmatter(fm, content) ==
    <<TextLine(FALSE, yamlDelimiter)>>
    \o (IF DOMAIN fm # {} THEN YamlMarshal(fm) ELSE <<>>)
    \o <<TextLine(FALSE, yamlDelimiter)>>
    \o [i \in 1..Len(content) |-> TextLine(FALSE, content[i])]

\* strings.TrimSpace(line) == yamlDelimiter
IsDelimiter(line) == line.kind = "text" /\ line.text = yamlDelimiter

\* The position of the first delimiter line at or after position i, or the
\* position after the last line.
RECURSIVE NextDelimiter(_, _)
NextDelimiter(lines, i) ==
    IF i > Len(lines) \/ IsDelimiter(lines[i]) THEN i ELSE NextDelimiter(lines, i + 1)

\* strings.TrimSpace of the joined lines: the empty lines at both ends and
\* the indentation of the first line are cut off.
RECURSIVE TrimSpace(_)
TrimSpace(lines) ==
    IF lines = <<>> THEN <<>>
    ELSE IF Head(lines).kind = "text" /\ Head(lines).text = "" THEN TrimSpace(Tail(lines))
    ELSE IF lines[Len(lines)].kind = "text" /\ lines[Len(lines)].text = ""
    THEN TrimSpace(SubSeq(lines, 1, Len(lines) - 1))
    ELSE <<[Head(lines) EXCEPT !.indent = FALSE]>> \o Tail(lines)

\* ParseFrontmatter: without a delimiter on the first line everything is
\* content; else the lines up to the next delimiter are parsed as YAML and
\* the lines after it are the content.
ParseFrontmatter(lines) ==
    IF lines = <<>> THEN [ok |-> TRUE, fields |-> EmptyFn, content |-> <<>>]
    ELSE IF ~IsDelimiter(lines[1])
    THEN [ok |-> TRUE, fields |-> EmptyFn, content |-> lines]
    ELSE LET close == NextDelimiter(lines, 2)
             yaml  == YamlUnmarshal(SubSeq(lines, 2, close - 1), EmptyFn)
         IN  IF ~yaml.ok THEN Failed
             ELSE [ok |-> TRUE, fields |-> yaml.fields,
                   content |-> TrimSpace(SubSeq(lines, close + 1, Len(lines)))]

\* A caller serializes a block and a body.
CallSerializeFrontmatter(fm, content) ==
    /\ call = NoCall
    /\ call' = [op |-> "SerializeFrontmatter", fm |-> fm, content |-> content,
                data |-> SerializeFrontmatter(fm, content)]
    /\ UNCHANGED <<board, disk, save, faults, sw, rt, root>>

\* What was written is parsed.
CallParseFrontmatter ==
    /\ call.op = "SerializeFrontmatter"
    /\ call' = [op |-> "ParseFrontmatter", fm |-> call.fm, content |-> call.content,
                data |-> call.data, doc |-> ParseFrontmatter(call.data)]
    /\ UNCHANGED <<board, disk, save, faults, sw, rt, root>>

FrontmatterInit ==
    /\ call = NoCall
    /\ board = NewBoard
    /\ disk = EmptyDisk
    /\ save = NoSave
    /\ faults = 0
    /\ sw = NoWrite
    /\ rt = NoRoundTrip
    /\ root = NoRoot

FrontmatterNext ==
    \/ \E fm \in FrontmatterBlocks : \E content \in Bodies :
           CallSerializeFrontmatter(fm, content)
    \/ CallParseFrontmatter

FrontmatterSpec == FrontmatterInit /\ [][FrontmatterNext]_vars

\* The lines of a body as text lines without indentation.
BodyLines(content) == [i \in 1..Len(content) |-> TextLine(FALSE, content[i])]

\* C33: what SerializeFrontmatter writes begins with the delimiter line and
\* holds the closing delimiter line after the YAML of the block, also for an
\* empty block; ParseFrontmatter of it succeeds and yields the block and the
\* trimmed body that were serialized.
C33_FrontmatterRoundTrip ==
    /\ call.op \in {"SerializeFrontmatter", "ParseFrontmatter"} =>
           LET n == Len(YamlMarshal(call.fm))
           IN  /\ Len(call.data) >= n + 2
               /\ IsDelimiter(call.data[1])
               /\ IsDelimiter(call.data[n + 2])
    /\ call.op = "ParseFrontmatter" =>
           /\ call.doc.ok
           /\ call.doc.fields = call.fm
           /\ call.doc.content = TrimSpace(BodyLines(call.content))

-----------------------------------------------------------------------------
(* Save as one operation on the boards root.  root maps a board ID to the  *)
(* directory of the board: tree is the tree of the entities, files the     *)
(* regular files that lie directly in columns/, colFiles[k] those directly *)
(* in column directory k beside its two entity files (a temporary file an  *)
(* interrupted SafeWrite left there) and taskFiles[k] those directly in    *)
(* its tasks/.  call is the last operation and, for a Save, the column and *)
(* task directories it removed.                                            *)

\* The boards of this specification.
FrameBoardIDs == {"demo", "home"}

\* The name of a regular file that is no entity file.
StrayName == <<".", "t", "m", "p">>

\* The in-memory boards handed to Save.
FrameBoards ==
    {NewBoard,
     [columns |-> <<NewColumn(NameDone)>>, nextTaskNum |-> 1],
     [columns |-> << [NewColumn(NameDone) EXCEPT !.tasks = <<NewTask(1)>>] >>,
      nextTaskNum |-> 2],
     SampleBoard}

EmptyBoardDir ==
    [tree |-> EmptyDisk, files |-> {}, colFiles |-> EmptyFn, taskFiles |-> EmptyFn]

\* The files directly in column directory k and in its tasks/.
ColFilesOf(w, k) == IF k \in DOMAIN w.colFiles THEN w.colFiles[k] ELSE {}
TaskFilesOf(w, k) == IF k \in DOMAIN w.taskFiles THEN w.taskFiles[k] ELSE {}

\* os.ReadDir of columns/ and of the tasks/ of column directory k.
ReadColumnsDir(w) ==
    {[name |-> k, isDir |-> TRUE] : k \in DOMAIN w.tree.cols}
        \cup {[name |-> f, isDir |-> FALSE] : f \in w.files}
ReadTasksDir(w, k) ==
    {[name |-> f, isDir |-> TRUE] : f \in DOMAIN w.tree.cols[k].tasks}
        \cup {[name |-> f, isDir |-> FALSE] : f \in TaskFilesOf(w, k)}

\* filesystem.RemoveDir (os.RemoveAll) of the entries named in names under
\* columns/: a directory goes with all that is in it.
RemoveUnderColumns(w, names) ==
    [w EXCEPT !.tree.cols = [k \in (DOMAIN @) \ names |-> @[k]],
              !.files = @ \ names,
              !.colFiles = [k \in (DOMAIN @) \ names |-> @[k]],
              !.taskFiles = [k \in (DOMAIN @) \ names |-> @[k]]]

\* filesystem.RemoveDir of the entries named in names under the tasks/ of
\* column directory k.
RemoveUnderTasks(w, k, names) ==
    [w EXCEPT !.tree.cols[k].tasks = [f \in (DOMAIN @) \ names |-> @[f]],
              !.taskFiles = IF k \in DOMAIN @ THEN [@ EXCEPT ![k] = @ \ names] ELSE @]

\* A cleanupOldTasks that does not look at entry.IsDir().
CleanupOldTasksAnyEntry(w, k, col) ==
    IF ~w.tree.cols[k].hasTasks THEN w
    ELSE RemoveUnderTasks(w, k,
             {e.name : e \in {e \in ReadTasksDir(w, k) : e.name \notin TaskFolders(col)}})

\* cleanupOldTasks: nothing without tasks/; else every directory of tasks/
\* whose name is no task of the column is removed.
CleanupOldTasksIn(w, k, col) ==
    IF ~w.tree.cols[k].hasTasks THEN w
    ELSE RemoveUnderTasks(w, k,
             {e.name : e \in {e \in ReadTasksDir(w, k) :
                                  e.isDir /\ e.name \notin TaskFolders(col)}})

\* cleanupOldColumns: nothing without columns/; else every directory of
\* columns/ whose name is no key of the board is removed.
CleanupOldColumnsIn(w, b) ==
    IF ~w.tree.hasColumns THEN w
    ELSE RemoveUnderColumns(w,
             {e.name : e \in {e \in ReadColumnsDir(w) :
                                  e.isDir /\ e.name \notin ColumnKeys(b)}})

\* saveColumn up to cleanupOldTasks: the column directory, its two files, and
\* for each task its directory and its two files.
WriteColumnIn(w, col) ==
    LET k  == ColumnKey(col)
        d  == EnsureColumnDir(w.tree, k)
        cd == d.cols[k]
    IN  [w EXCEPT !.tree = [d EXCEPT !.cols[k] =
            [cd EXCEPT
                !.meta = YamlFile(ColumnMetadataToStorage(col)),
                !.content = ColumnContentToMarkdown(col),
                !.hasTasks = @ \/ col.tasks # <<>>,
                !.tasks = [f \in (DOMAIN @) \cup TaskFolders(col) |->
                              IF f \in TaskFolders(col)
                              THEN TaskDirOf(TaskWithFolder(col, f)) ELSE @[f]]]]]

\* saveColumn
SaveColumnIn(w, col) == CleanupOldTasksIn(WriteColumnIn(w, col), ColumnKey(col), col)

RECURSIVE SaveColumnsIn(_, _)
\* The loop of Save over board.Columns().
SaveColumnsIn(w, cols) ==
    IF cols = <<>> THEN w
    ELSE SaveColumnsIn(SaveColumnIn(w, Head(cols)), Tail(cols))

\* saveBoardMetadata under BoardDir(board.ID()).
SaveBoardMetadataIn(w, b, id) ==
    [w EXCEPT !.tree.exists = TRUE,
              !.tree.meta = YamlFile([BoardToStorage(b) EXCEPT !.id = id]),
              !.tree.content = BoardContentToMarkdown(b)]

\* Save of board b with ID id on the directory w of that ID.
SaveIn(w, b, id) ==
    CleanupOldColumnsIn(SaveColumnsIn(SaveBoardMetadataIn(w, b, id), b.columns), b)

\* The column directories and the task directories of a board directory.
ColumnDirsOf(w) == DOMAIN w.tree.cols
TaskDirsOf(w) ==
    UNION {{<<k, f>> : f \in DOMAIN w.tree.cols[k].tasks} : k \in DOMAIN w.tree.cols}

BoardDirOf(r, id) == IF id \in DOMAIN r THEN r[id] ELSE EmptyBoardDir

\* Save(board) with board.ID() = id.
FrSave(id, b) ==
    /\ \E after \in {SaveIn(BoardDirOf(root, id), b, id)} :
           /\ root' = Put(root, id, after)
           /\ call' = [op |-> "Save", id |-> id,
                       removedColumns |-> ColumnDirsOf(BoardDirOf(root, id)) \ ColumnDirsOf(after),
                       removedTasks |-> TaskDirsOf(BoardDirOf(root, id)) \ TaskDirsOf(after)]
    /\ board' = b
    /\ UNCHANGED <<disk, save, faults, sw, rt>>

\* A regular file appears directly in columns/ of board id.
FrFileInColumns(id) ==
    /\ id \in DOMAIN root /\ root[id].tree.hasColumns
    /\ root' = [root EXCEPT ![id].files = @ \cup {StrayName}]
    /\ call' = [op |-> "file", id |-> id, removedColumns |-> {}, removedTasks |-> {}]
    /\ UNCHANGED <<board, disk, save, faults, sw, rt>>

\* An interrupted SafeWrite leaves its temporary file in column directory k.
FrFileInColumn(id, k) ==
    /\ id \in DOMAIN root /\ k \in DOMAIN root[id].tree.cols
    /\ root' = [root EXCEPT ![id].colFiles = Put(@, k, {StrayName})]
    /\ call' = [op |-> "file", id |-> id, removedColumns |-> {}, removedTasks |-> {}]
    /\ UNCHANGED <<board, disk, save, faults, sw, rt>>

\* A regular file appears directly in the tasks/ of column directory k.
FrFileInTasks(id, k) ==
    /\ id \in DOMAIN root /\ k \in DOMAIN root[id].tree.cols
    /\ root[id].tree.cols[k].hasTasks
    /\ root' = [root EXCEPT ![id].taskFiles = Put(@, k, {StrayName})]
    /\ call' = [op |-> "file", id |-> id, removedColumns |-> {}, removedTasks |-> {}]
    /\ UNCHANGED <<board, disk, save, faults, sw, rt>>

FrameInit ==
    /\ root = EmptyFn
    /\ call = [op |-> "none", id |-> "", removedColumns |-> {}, removedTasks |-> {}]
    /\ board = NewBoard
    /\ disk = EmptyDisk
    /\ save = NoSave
    /\ faults = 0
    /\ sw = NoWrite
    /\ rt = NoRoundTrip

FrameNext ==
    \/ \E id \in FrameBoardIDs : \E b \in FrameBoards : FrSave(id, b)
    \/ \E id \in FrameBoardIDs : FrFileInColumns(id)
    \/ \E id \in FrameBoardIDs : FrFileInColumn(id, Generate(NameDone))
    \/ \E id \in FrameBoardIDs : FrFileInTasks(id, Generate(NameDone))

FrameSpec == FrameInit /\ [][FrameNext]_vars

\* C34: a Save of board A leaves the directory of every other board as it
\* was; in the directory of A every regular file that lay directly in
\* columns/ or directly in a tasks/ that still exists is still there, a
\* file in a column directory is gone only with that column directory, and
\* the directories that are gone are column directories that are no key of
\* the board and task directories that are no task of their column.
C34_SaveStaysInItsBoard ==
    [][call'.op = "Save" =>
          LET id     == call'.id
              before == BoardDirOf(root, id)
              after  == root'[id]
          IN  /\ \A other \in DOMAIN root : other # id => root'[other] = root[other]
              /\ DOMAIN root' = DOMAIN root \cup {id}
              /\ after.files = before.files
              /\ \A k \in ColumnDirsOf(before) \cap ColumnDirsOf(after) :
                     /\ ColFilesOf(after, k) = ColFilesOf(before, k)
                     /\ TaskFilesOf(after, k) = TaskFilesOf(before, k)
              /\ call'.removedColumns \cap ColumnKeys(board') = {}
              /\ \A p \in call'.removedTasks :
                     \/ p[1] \in call'.removedColumns
                     \/ p[2] \notin TaskFolders(LastWithKey(board', p[1]))
              /\ after.tree.legacy = before.tree.legacy]_vars

\* A Save of one board removed a column directory and a task directory while
\* regular files lay in its columns/ and in a tasks/, and another board
\* exists.
C34_Witness ==
    /\ call.op = "Save"
    /\ call.removedColumns # {}
    /\ \E p \in call.removedTasks : p[1] \notin call.removedColumns
    /\ root[call.id].files # {}
    /\ \E k \in DOMAIN root[call.id].taskFiles : root[call.id].taskFiles[k] # {}
    /\ \E other \in DOMAIN root : other # call.id /\ root[other].tree.hasColumns

-----------------------------------------------------------------------------
(* slug.Generate applied to its own result.  The strings are a run of one  *)
(* letter, of a length around SlugMaxLen or empty, followed by up to       *)
(* MaxTail characters of SlugAlphabet, so that the cut at SlugMaxLen       *)
(* falls before, on and after a hyphen.  call is the last call: its        *)
(* argument s, its result slug, and the string arg the first call was      *)
(* made with.                                                              *)

MaxTail == 3

\* A letter, a capital, a hyphen, a space and a character that is none of these.
SlugAlphabet == {"a", "A", "-", " ", "!"}

\* The lengths of the run the string begins with.
RunLengths == {0, SlugMaxLen - 2, SlugMaxLen - 1, SlugMaxLen}

RECURSIVE Tails(_)
\* The strings of at most n characters of SlugAlphabet.
Tails(n) ==
    IF n = 0 THEN {<<>>}
    ELSE Tails(n - 1) \cup {Append(t, c) : t \in Tails(n - 1), c \in SlugAlphabet}

SlugInputs == {[i \in 1..n |-> "a"] \o t : n \in RunLengths, t \in Tails(MaxTail)}

\* The column directory of a column of which only metadata.yml was written.
MetadataOnlyDir == [EmptyColDir EXCEPT !.meta = YamlFile([order |-> 0, wip_limit |-> 0])]

\* slug.Generate(s)
CallGenerate(s) ==
    /\ call.op = "none"
    /\ call' = [op |-> "Generate", arg |-> s, s |-> s, slug |-> Generate(s)]
    /\ UNCHANGED <<board, disk, save, faults, sw, rt, root>>

\* slug.Generate of the result of the last call.
CallGenerateAgain ==
    /\ call.op = "Generate"
    /\ call' = [op |-> "again", arg |-> call.arg, s |-> call.slug, slug |-> Generate(call.slug)]
    /\ UNCHANGED <<board, disk, save, faults, sw, rt, root>>

\* loadColumn of a directory named by the result of the last call that holds
\* metadata.yml alone, then the key saveColumn derives for the column.
LoadKeyNamedColumn ==
    /\ call.op = "Generate"
    /\ \E r \in {ColumnOf(MetadataOnlyDir, call.slug)} :
           /\ r.ok
           /\ call' = [op |-> "loadColumn", arg |-> call.arg, s |-> call.slug,
                       slug |-> ColumnKey(r.col)]
    /\ UNCHANGED <<board, disk, save, faults, sw, rt, root>>

SlugInit ==
    /\ call = [op |-> "none", arg |-> <<>>, s |-> <<>>, slug |-> <<>>]
    /\ board = NewBoard
    /\ disk = EmptyDisk
    /\ save = NoSave
    /\ faults = 0
    /\ sw = NoWrite
    /\ rt = NoRoundTrip
    /\ root = NoRoot

SlugNext ==
    \/ \E s \in SlugInputs : CallGenerate(s)
    \/ CallGenerateAgain
    \/ LoadKeyNamedColumn

SlugSpec == SlugInit /\ [][SlugNext]_vars

\* C35: Generate of a result of Generate is that result, and a column loaded
\* from a directory named by a result of Generate with the directory name as
\* its display name is saved under that directory name.
C35_GenerateIdempotent ==
    call.op \in {"again", "loadColumn"} => call.slug = call.s

\* Generate was applied again to a result that was cut at SlugMaxLen and
\* lost a hyphen at the cut.
C35_Witness ==
    /\ call.op = "again"
    /\ Len(call.arg) > SlugMaxLen
    /\ call.arg[SlugMaxLen] # "a" /\ call.arg[SlugMaxLen + 1] = "a"
    /\ Len(call.s) = SlugMaxLen - 1
    /\ call.slug = call.s

\* Generate was applied again to "untitled", the result for a string that
\* normalizes to the empty string.
C35_EmptyWitness ==
    call.op = "again" /\ call.arg # <<>> /\ call.s = Untitled /\ call.slug = Untitled

\* A column was loaded from a directory named by a key.
C35_ColumnWitness == call.op = "loadColumn" /\ call.slug = call.s

-----------------------------------------------------------------------------
(* SyncSessionBoardUseCase.Execute with GitRepoSyncStrategy, one run as    *)
(* one step: the board of the session is loaded with FindByID (or created  *)
(* with the default columns), Sync creates or updates one task for each    *)
(* branch of the repository, and the board is saved.  rt is the            *)
(* repository: its branches and the current one.  disk is the directory of *)
(* the board, board the board the last run saved.  call is the last run:   *)
(* the number of the run, the tasks it created, its error, and the         *)
(* branches of the run before it.                                          *)
(*                                                                         *)
(* A task holds its metadata map in the field metadata; a task without the *)
(* field is one whose map is nil.                                          *)

\* Largest number of runs of Execute in one behaviour.
MaxSyncs == 3

NameInProgress == <<"I", "n", " ", "P", "r", "o", "g", "r", "e", "s", "s">>

\* The names of the branches of the model.
BranchFix == <<"f", "i", "x">>
BranchNext == <<"n", "e", "x", "t">>
BranchNames == {BranchFix, BranchNext}

\* addDefaultColumns
DefaultColumns ==
    << [displayName |-> NameToDo, description |-> "Tasks to be started",
        order |-> 0, wipLimit |-> 0, tasks |-> <<>>],
       [displayName |-> NameInProgress, description |-> "Tasks currently being worked on",
        order |-> 1, wipLimit |-> 3, tasks |-> <<>>],
       [displayName |-> NameDone, description |-> "Completed tasks",
        order |-> 2, wipLimit |-> 0, tasks |-> <<>>] >>

\* Task.GetMetadata: the value and whether the key exists.
HasMetadata(t, key) == "metadata" \in DOMAIN t /\ key \in DOMAIN t.metadata
GetMetadata(t, key) == IF HasMetadata(t, key) THEN t.metadata[key] ELSE <<>>

\* Task.SetMetadata
SetMetadata(t, key, value) ==
    IF "metadata" \in DOMAIN t
    THEN [t EXCEPT !.metadata = Put(@, key, value)]
    ELSE [k \in (DOMAIN t) \cup {"metadata"} |->
             IF k = "metadata" THEN Put(EmptyFn, key, value) ELSE t[k]]

\* Board.GetColumn(name): the position of the column, 0 when there is none.
GetColumn(b, name) ==
    IF \E i \in DOMAIN b.columns : b.columns[i].displayName = name
    THEN CHOOSE i \in DOMAIN b.columns : b.columns[i].displayName = name
    ELSE 0

\* The column of Sync for a branch.
TargetColumnName(isCurrent) == IF isCurrent THEN NameInProgress ELSE NameToDo

\* The task createBranchTask builds with entity.NewTask and SetMetadata.
BranchTask(number, branch, isCurrent) ==
    SetMetadata(
        SetMetadata(
            [id |-> [prefix |-> BoardPrefix, number |-> number, slug |-> Generate(branch)],
             title |-> branch, description |-> "Git branch", priority |-> "none",
             status |-> "todo", tags |-> <<>>],
            "git_branch", branch),
        "is_current_branch", isCurrent)

\* createBranchTask: an error without the target column, nothing when the
\* column is full, else a task with the next number of the board.
CreateBranchTask(b, branch, isCurrent) ==
    LET i == GetColumn(b, TargetColumnName(isCurrent))
        t == BranchTask(b.nextTaskNum, branch, isCurrent)
    IN  IF i = 0 THEN [ok |-> FALSE, board |-> b, created |-> 0]
        ELSE IF ~CanAddTask(b.columns[i]) THEN [ok |-> TRUE, board |-> b, created |-> 0]
        ELSE IF ~AddTaskOk(b.columns[i], t)
        THEN [ok |-> FALSE, board |-> [b EXCEPT !.nextTaskNum = @ + 1], created |-> 0]
        ELSE [ok |-> TRUE, created |-> 1,
              board |-> [b EXCEPT !.nextTaskNum = @ + 1,
                                  !.columns[i].tasks = Append(@, t)]]

\* The places <<column, task>> of the tasks of b.
TaskPlaces(b) ==
    UNION {{<<i, j>> : j \in DOMAIN b.columns[i].tasks} : i \in DOMAIN b.columns}

\* existingBranchTasks: the places of the tasks that name a branch in their
\* metadata.
ExistingBranchTasks(b) ==
    {p \in TaskPlaces(b) : HasMetadata(b.columns[p[1]].tasks[p[2]], "git_branch")}

\* Board.MoveTask of the task at place p to column k when the column takes it.
MoveTaskTo(b, p, k) ==
    IF k = 0 \/ k = p[1] \/ ~CanAddTask(b.columns[k]) THEN b
    ELSE [b EXCEPT
             !.columns[p[1]].tasks = SubSeq(@, 1, p[2] - 1) \o SubSeq(@, p[2] + 1, Len(@)),
             !.columns[k].tasks = Append(@, b.columns[p[1]].tasks[p[2]])]

\* The place of the task with identifier id.
FindTask(b, id) == CHOOSE p \in TaskPlaces(b) : b.columns[p[1]].tasks[p[2]].id = id

\* updateBranchTask: the metadata is set again and the task is moved to the
\* column of the branch unless it is in Done.
UpdateBranchTask(b, id, isCurrent) ==
    LET p   == FindTask(b, id)
        set == [b EXCEPT !.columns[p[1]].tasks[p[2]] =
                   SetMetadata(@, "is_current_branch", isCurrent)]
    IN  IF b.columns[p[1]].displayName \in {TargetColumnName(isCurrent), NameDone}
        THEN set
        ELSE MoveTaskTo(set, p, GetColumn(b, TargetColumnName(isCurrent)))

\* moveTaskToDone and Task.MarkAsCompleted for the task of a deleted branch.
MoveTaskToDone(b, id) ==
    LET p == FindTask(b, id)
        k == GetColumn(b, NameDone)
    IN  IF b.columns[p[1]].displayName = NameDone THEN b
        ELSE IF k = 0 \/ ~CanAddTask(b.columns[k]) THEN b
        ELSE [MoveTaskTo(b, p, k) EXCEPT
                 !.columns[k].tasks[Len(b.columns[k].tasks) + 1].status = "done"]

\* The identifier of the task existingBranchTasks holds for a branch: the
\* last task of the board that names the branch.
BranchTaskID(b, existing, branch) ==
    LET ps == {p \in existing : GetMetadata(b.columns[p[1]].tasks[p[2]], "git_branch") = branch}
        p  == CHOOSE q \in ps : \A o \in ps : o[1] < q[1] \/ (o[1] = q[1] /\ o[2] <= q[2])
    IN  IF ps = {} THEN [found |-> FALSE]
        ELSE [found |-> TRUE, id |-> b.columns[p[1]].tasks[p[2]].id]

RECURSIVE SyncBranches(_, _, _, _)
\* The loop of Sync over the branches; ids are the identifiers
\* existingBranchTasks held when the loop began.
SyncBranches(acc, ids, branches, current) ==
    IF branches = <<>> \/ ~acc.ok THEN acc
    ELSE LET branch == Head(branches)
             next   == IF branch \in DOMAIN ids
                       THEN [ok |-> TRUE, created |-> 0,
                             board |-> UpdateBranchTask(acc.board, ids[branch],
                                                        branch = current)]
                       ELSE CreateBranchTask(acc.board, branch, branch = current)
         IN  SyncBranches([ok |-> next.ok, board |-> next.board,
                           created |-> acc.created + next.created],
                          ids, Tail(branches), current)

RECURSIVE MoveDeletedToDone(_, _, _)
\* The loop of Sync over the tasks of the branches that are gone.
MoveDeletedToDone(b, ids, gone) ==
    IF gone = <<>> THEN b
    ELSE MoveDeletedToDone(MoveTaskToDone(b, ids[Head(gone)]), ids, Tail(gone))

\* GitRepoSyncStrategy.Sync
Sync(b, branches, current) ==
    LET existing == ExistingBranchTasks(b)
        named    == {n \in BranchNames : BranchTaskID(b, existing, n).found}
        ids      == [n \in named |-> BranchTaskID(b, existing, n).id]
        synced   == SyncBranches([ok |-> TRUE, board |-> b, created |-> 0],
                                 ids, SortedNames(branches), current)
    IN  IF ~synced.ok THEN synced
        ELSE [synced EXCEPT
                 !.board = MoveDeletedToDone(@, ids, SortedNames(named \ branches))]

\* getOrCreateBoard: the board FindByID returns, or a new board with the
\* default columns.
GetOrCreateSessionBoard(d) ==
    IF ~d.exists THEN [ok |-> TRUE, board |-> [columns |-> DefaultColumns, nextTaskNum |-> 1]]
    ELSE FindByID(d)

\* BoardRepositoryImpl.Save of board b on tree d.
SavedOn(d, b) == SaveIn([EmptyBoardDir EXCEPT !.tree = d], b, BoardID).tree

\* The tasks of board b for branch n: createBranchTask gives them the name of
\* the branch as title.
TasksOfBranch(b, n) ==
    {p \in TaskPlaces(b) : b.columns[p[1]].tasks[p[2]].title = n}

\* SyncSessionBoardUseCase.Execute
SyncSessionBoard ==
    /\ call.runs < MaxSyncs
    /\ \E got \in {GetOrCreateSessionBoard(disk)} :
       \E synced \in {IF got.ok THEN Sync(got.board, rt.branches, rt.current)
                      ELSE [ok |-> FALSE, board |-> NewBoard, created |-> 0]} :
           /\ call' = [op |-> "Execute", runs |-> call.runs + 1,
                       ok |-> synced.ok, created |-> synced.created,
                       before |-> IF call.op = "Execute" /\ call.ok
                                  THEN call.branches ELSE {},
                       branches |-> rt.branches]
           /\ IF synced.ok
              THEN /\ disk' = SavedOn(disk, synced.board)
                   /\ board' = synced.board
              ELSE UNCHANGED <<board, disk>>
    /\ UNCHANGED <<save, faults, sw, rt, root>>

\* A branch is created, deleted or checked out in the repository.
GitChange(branches, current) ==
    /\ call.runs < MaxSyncs
    /\ current \in branches
    /\ rt # [branches |-> branches, current |-> current]
    /\ rt' = [branches |-> branches, current |-> current]
    /\ call' = [call EXCEPT !.op = "git"]
    /\ UNCHANGED <<board, disk, save, faults, sw, root>>

SyncInit ==
    /\ \E current \in BranchNames : rt = [branches |-> BranchNames, current |-> current]
    /\ call = [op |-> "none", runs |-> 0, ok |-> TRUE, created |-> 0,
               before |-> {}, branches |-> {}]
    /\ board = NewBoard
    /\ disk = EmptyDisk
    /\ save = NoSave
    /\ faults = 0
    /\ sw = NoWrite
    /\ root = NoRoot

SyncNext ==
    \/ SyncSessionBoard
    \/ \E branches \in SUBSET BranchNames : \E current \in BranchNames :
           GitChange(branches, current)

SyncSpec == SyncInit /\ [][SyncNext]_vars

\* C36: a run of Execute that follows a successful run with the same set of
\* branches creates no task, and the board on disk never holds two tasks for
\* one branch.
C36_SecondSyncCreatesNothing ==
    /\ (call.op = "Execute" /\ call.before = call.branches) => call.created = 0
    /\ \A n \in BranchNames :
           FindByID(disk).ok => Cardinality(TasksOfBranch(FindByID(disk).board, n)) <= 1

\* The first half of C36 alone.
C36_NoTaskInSecondRun ==
    (call.op = "Execute" /\ call.before = call.branches) => call.created = 0

\* The second half of C36 alone.
C36_OneTaskPerBranch ==
    \A n \in BranchNames :
        FindByID(disk).ok => Cardinality(TasksOfBranch(FindByID(disk).board, n)) <= 1

\* The first run creates one task for each branch, which Save writes.
C36_FirstRun ==
    (call.op = "Execute" /\ call.runs = 1) =>
        /\ call.ok /\ call.created = Cardinality(call.branches)
        /\ \A n \in call.branches : Cardinality(TasksOfBranch(FindByID(disk).board, n)) = 1

\* No task that FindByID returns names a branch in its metadata.
C36_LoadedTasksNameNoBranch ==
    FindByID(disk).ok => ExistingBranchTasks(FindByID(disk).board) = {}

-----------------------------------------------------------------------------
(* The subscriptions of the daemon.  Each accepted connection is served by *)
(* one goroutine running handleConnection; a subscribe request makes it    *)
(* run handleSubscribe, which registers a notification channel under       *)
(* subMu and then forwards what arrives on the channel to the client.      *)
(* notifySubscribers runs in the goroutine of a request that changed a     *)
(* board; those requests hold s.mu, so one notifySubscribers runs at a     *)
(* time.  call holds                                                       *)
(*   conn[c]   the position pc of the goroutine of connection c and        *)
(*             whether the client has closed the connection;               *)
(*   subs      s.subscribers: for a board the connections registered;      *)
(*   chans[c]  the channel handleSubscribe made for c: open, the number of *)
(*             notifications buffered, and how often close was called;     *)
(*   notif     notifySubscribers: its position, its board, the             *)
(*             connections its loop has visited and the one it is at;      *)
(*   published the number of calls of notifySubscribers so far;            *)
(*   sentOnClosed  whether a send found its channel closed.                *)

\* Largest number of connections and of calls of notifySubscribers.
MaxConns == 2
MaxNotifications == 1

\* make(chan *Notification, 10)
NotifChanCap == 10

ConnIDs == 1..MaxConns
SubscribedBoards == {"demo", "home"}

NoChan == [made |-> FALSE, open |-> FALSE, buffered |-> 0, closes |-> 0]
NoNotifier == [pc |-> "idle", board |-> "", visited |-> {}, at |-> 0]

\* The connections registered for board b.
SubscribersOf(subs, b) == IF b \in DOMAIN subs THEN subs[b] ELSE {}

\* The connections registered for some board.
Subscribed(subs) == UNION {subs[b] : b \in DOMAIN subs}

\* A subMu that lets a writer in beside a reader.
SubMuAlwaysFree == TRUE

\* s.subMu.Lock() returns: no notifySubscribers holds the read lock.  The
\* sections under the write lock are steps of their own, so no writer is
\* inside when another step is taken.
SubMuFree == call.notif.pc = "idle"

\* A cleanupSubscriber that closes the channel of the connection whether or
\* not the connection is still registered.
CleanupSubscriberUnchecked(st, c) ==
    [st EXCEPT
        !.chans[c] = IF @.made THEN [@ EXCEPT !.open = FALSE, !.closes = @ + 1] ELSE @,
        !.subs = [b \in {x \in DOMAIN @ : @[x] # {c}} |-> @[b] \ {c}]]

\* cleanupSubscriber under the write lock: for every board where the
\* connection is registered its channel is closed and its entry deleted, and
\* a board left without subscribers is deleted.
CleanupSubscriber(st, c) ==
    [st EXCEPT
        !.chans[c] = [@ EXCEPT
            !.open = IF c \in Subscribed(st.subs) THEN FALSE ELSE @,
            !.closes = @ + Cardinality({b \in DOMAIN st.subs : c \in st.subs[b]})],
        !.subs = [b \in {x \in DOMAIN @ : @[x] # {c}} |-> @[b] \ {c}]]

SubAt(c, pc) == call.conn[c].pc = pc
SubGoto(st, c, pc) == [st EXCEPT !.conn[c].pc = pc]
SubFrame == UNCHANGED <<board, disk, save, faults, sw, rt, root>>

\* acceptConnections: go s.handleConnection(conn)
AcceptConnection(c) ==
    /\ SubAt(c, "none")
    /\ call' = SubGoto(call, c, "decode")
    /\ SubFrame

\* The client closes its end of the connection.
ClientCloses(c) ==
    /\ call.conn[c].pc \notin {"none", "done"}
    /\ ~call.conn[c].closed
    /\ call' = [call EXCEPT !.conn[c].closed = TRUE]
    /\ SubFrame

\* handleConnection: decoder.Decode fails on the closed connection, or a
\* request other than subscribe is answered; the function returns.
ConnectionReturns(c) ==
    /\ SubAt(c, "decode")
    /\ call' = SubGoto(call, c, "deferred")
    /\ SubFrame

\* handleConnection reads a subscribe request for board b and calls
\* handleSubscribe, which makes the channel.
HandleSubscribe(c, b) ==
    /\ SubAt(c, "decode")
    /\ call' = [call EXCEPT !.conn[c].pc = "register", !.conn[c].board = b,
                            !.chans[c] = [NoChan EXCEPT !.made = TRUE, !.open = TRUE]]
    /\ SubFrame

\* handleSubscribe: the channel is registered under the write lock.
RegisterSubscriber(c) ==
    /\ SubAt(c, "register")
    /\ SubMuFree
    /\ call' = [call EXCEPT
                   !.conn[c].pc = "respond",
                   !.subs = Put(@, call.conn[c].board,
                                SubscribersOf(@, call.conn[c].board) \cup {c})]
    /\ SubFrame

\* handleSubscribe: encoder.Encode(resp); on an error cleanupSubscriber and
\* return.
EncodeSubscribed(c) ==
    /\ SubAt(c, "respond")
    /\ call' = SubGoto(call, c, IF call.conn[c].closed THEN "cleanup" ELSE "range")
    /\ SubFrame

\* handleSubscribe: for notification := range notifChan receives a buffered
\* notification, or ends when the channel is closed and empty.
ReceiveNotification(c) ==
    /\ SubAt(c, "range")
    /\ call.chans[c].buffered > 0 \/ ~call.chans[c].open
    /\ call' = IF call.chans[c].buffered > 0
               THEN [call EXCEPT !.conn[c].pc = "encode", !.chans[c].buffered = @ - 1]
               ELSE SubGoto(call, c, "deferred")
    /\ SubFrame

\* handleSubscribe: encoder.Encode(notification); on an error
\* cleanupSubscriber and return.
EncodeNotification(c) ==
    /\ SubAt(c, "encode")
    /\ call' = SubGoto(call, c, IF call.conn[c].closed THEN "cleanup" ELSE "range")
    /\ SubFrame

\* handleSubscribe: s.cleanupSubscriber(conn); return.
CleanupOnEncodeError(c) ==
    /\ SubAt(c, "cleanup")
    /\ SubMuFree
    /\ call' = SubGoto(CleanupSubscriber(call, c), c, "deferred")
    /\ SubFrame

\* handleConnection: the deferred s.cleanupSubscriber(conn); conn.Close().
DeferredCleanupSubscriber(c) ==
    /\ SubAt(c, "deferred")
    /\ SubMuFree
    /\ call' = SubGoto(CleanupSubscriber(call, c), c, "done")
    /\ SubFrame

\* notifySubscribers(b, ...): s.subMu.RLock(); without subscribers of the
\* board it returns.
NotifyRLock(b) ==
    /\ call.notif.pc = "idle"
    /\ call.published < MaxNotifications
    /\ call' = [call EXCEPT
                   !.published = @ + 1,
                   !.notif = IF b \in DOMAIN call.subs
                             THEN [NoNotifier EXCEPT !.pc = "loop", !.board = b]
                             ELSE NoNotifier]
    /\ SubFrame

\* notifySubscribers: the loop takes the next subscriber of the board, or ends
\* and the deferred RUnlock runs.
NotifyNext ==
    /\ call.notif.pc = "loop"
    /\ LET left == SubscribersOf(call.subs, call.notif.board) \ call.notif.visited
       IN  IF left = {}
           THEN call' = [call EXCEPT !.notif = NoNotifier]
           ELSE \E c \in left :
                    call' = [call EXCEPT !.notif.pc = "send", !.notif.at = c,
                                         !.notif.visited = @ \cup {c}]
    /\ SubFrame

\* notifySubscribers: select { case ch <- notification: default: }.
NotifySend ==
    /\ call.notif.pc = "send"
    /\ LET c == call.notif.at
       IN  call' = [call EXCEPT
                       !.notif.pc = "loop",
                       !.sentOnClosed = @ \/ ~call.chans[c].open,
                       !.chans[c].buffered =
                           IF call.chans[c].open /\ @ < NotifChanCap THEN @ + 1 ELSE @]
    /\ SubFrame

SubscribeInit ==
    /\ call = [conn |-> [c \in ConnIDs |-> [pc |-> "none", closed |-> FALSE, board |-> ""]],
               subs |-> EmptyFn,
               chans |-> [c \in ConnIDs |-> NoChan],
               notif |-> NoNotifier, published |-> 0, sentOnClosed |-> FALSE]
    /\ board = NewBoard
    /\ disk = EmptyDisk
    /\ save = NoSave
    /\ faults = 0
    /\ sw = NoWrite
    /\ rt = NoRoundTrip
    /\ root = NoRoot

\* The steps of the goroutine of connection c.
ConnectionStep(c) ==
    \/ ConnectionReturns(c)
    \/ \E b \in SubscribedBoards : HandleSubscribe(c, b)
    \/ RegisterSubscriber(c)
    \/ EncodeSubscribed(c)
    \/ ReceiveNotification(c)
    \/ EncodeNotification(c)
    \/ CleanupOnEncodeError(c)
    \/ DeferredCleanupSubscriber(c)

SubscribeNext ==
    \/ \E c \in ConnIDs : AcceptConnection(c)
    \/ \E c \in ConnIDs : ClientCloses(c)
    \/ \E c \in ConnIDs : ConnectionReturns(c)
    \/ \E c \in ConnIDs : \E b \in SubscribedBoards : HandleSubscribe(c, b)
    \/ \E c \in ConnIDs : RegisterSubscriber(c)
    \/ \E c \in ConnIDs : EncodeSubscribed(c)
    \/ \E c \in ConnIDs : ReceiveNotification(c)
    \/ \E c \in ConnIDs : EncodeNotification(c)
    \/ \E c \in ConnIDs : CleanupOnEncodeError(c)
    \/ \E c \in ConnIDs : DeferredCleanupSubscriber(c)
    \/ \E b \in SubscribedBoards : NotifyRLock(b)
    \/ NotifyNext
    \/ NotifySend

SubscribeSpec == SubscribeInit /\ [][SubscribeNext]_vars

\* C37: no channel is closed twice and no send finds its channel closed.
C37_ChannelClosedOnce ==
    /\ \A c \in ConnIDs : call.chans[c].closes <= 1
    /\ ~call.sentOnClosed

\* A connection whose cleanupSubscriber ran twice, once after an encode error
\* and once deferred, while notifications were sent: its channel was closed
\* once.
C37_Witness ==
    \E c \in ConnIDs :
        /\ call.conn[c].pc = "done"
        /\ call.conn[c].closed
        /\ call.chans[c].closes = 1
        /\ call.published > 0
        /\ \E o \in ConnIDs \ {c} : call.chans[o].buffered > 0

\* Every registered connection has an open channel and a running goroutine.
C37_RegisteredChannelsOpen ==
    \A c \in Subscribed(call.subs) :
        call.chans[c].open /\ call.conn[c].pc \in {"respond", "range", "encode", "cleanup"}


\* The goroutines of the daemon are scheduled fairly: a goroutine that can
\* take a step takes one.  Nothing obliges a client to close its connection
\* or a request to change a board, so ClientCloses, AcceptConnection and
\* NotifyRLock are under no fairness condition.
SubscribeFairSpec ==
    /\ SubscribeInit /\ [][SubscribeNext]_vars
    /\ \A c \in ConnIDs : WF_vars(ConnectionStep(c))
    /\ WF_vars(NotifyNext)
    /\ WF_vars(NotifySend)

\* Connection c is registered and its client has closed it.
ClosedSubscriber(c) == call.conn[c].closed /\ c \in Subscribed(call.subs)

\* Connection c is not registered and handleSubscribe and handleConnection
\* have returned.
SubscriberGone(c) == c \notin Subscribed(call.subs) /\ call.conn[c].pc = "done"

\* C38: a registered connection that its client has closed is eventually
\* removed from the subscribers and its goroutine ends.
C38_ClosedSubscriberRemoved ==
    \A c \in ConnIDs : ClosedSubscriber(c) ~> SubscriberGone(c)

\* A closed subscriber is removed once handleSubscribe has something to
\* encode: the response, or a notification that is in its channel.
C38_RemovedOnceNotified ==
    \A c \in ConnIDs :
        (ClosedSubscriber(c) /\ (call.chans[c].buffered > 0 \/ call.conn[c].pc # "range"))
            ~> SubscriberGone(c)

\* A closed subscriber whose goroutine waits on its empty channel stays
\* registered while no notification is sent to it.
C38_WaitingSubscriberStays ==
    [][\A c \in ConnIDs :
          (ClosedSubscriber(c) /\ call.conn[c].pc = "range" /\ call.chans[c].buffered = 0
                /\ call'.chans[c].buffered = 0)
              => (c \in Subscribed(call'.subs) /\ call'.conn[c].pc = "range")]_vars

-----------------------------------------------------------------------------
(* The terminal interface.  board is m.board, the board the interface      *)
(* shows; disk is the directory of the board, which the use cases load     *)
(* and save; call is the rest of the Model: focusedColumn and focusedTask  *)
(* (counted from 0 as in the source), the last key, and outOfRange,        *)
(* whether an index expression of moveTask or addTask was out of range.    *)

\* Largest task number addTask mints.
MaxTuiTasks == 3

\* The boards the interface is started on.
TuiBoards ==
    {[columns |-> <<NewColumn(NameToDo)>>, nextTaskNum |-> 1],
     [columns |-> <<NewColumn(NameToDo), NewColumn(NameDone)>>, nextTaskNum |-> 1],
     [columns |-> << [NewColumn(NameToDo) EXCEPT !.tasks = <<NewTask(1)>>],
                     NewColumn(NameDone) >>, nextTaskNum |-> 2],
     [columns |-> DefaultColumns, nextTaskNum |-> 1]}

\* NewModel
NewModel == [op |-> "none", focusedColumn |-> 0, focusedTask |-> 0, outOfRange |-> FALSE]

\* currentColumnTaskCount
CurrentColumnTaskCount(m, b) ==
    IF m.focusedColumn < 0 \/ m.focusedColumn >= Len(b.columns) THEN 0
    ELSE Len(b.columns[m.focusedColumn + 1].tasks)

\* clampTaskFocus
ClampTaskFocus(m, b) ==
    IF CurrentColumnTaskCount(m, b) = 0 THEN [m EXCEPT !.focusedTask = 0]
    ELSE IF m.focusedTask >= CurrentColumnTaskCount(m, b)
    THEN [m EXCEPT !.focusedTask = CurrentColumnTaskCount(m, b) - 1]
    ELSE m

\* moveLeft
MoveLeft(m, b) ==
    IF m.focusedColumn > 0
    THEN ClampTaskFocus([m EXCEPT !.focusedColumn = @ - 1, !.focusedTask = 0], b)
    ELSE m

\* moveRight
MoveRight(m, b) ==
    IF m.focusedColumn < Len(b.columns) - 1
    THEN ClampTaskFocus([m EXCEPT !.focusedColumn = @ + 1, !.focusedTask = 0], b)
    ELSE m

\* moveUp
MoveUp(m, b) == IF m.focusedTask > 0 THEN [m EXCEPT !.focusedTask = @ - 1] ELSE m

\* A moveDown that does not look at the number of tasks.
MoveDownAlways(m, b) == [m EXCEPT !.focusedTask = @ + 1]

\* moveDown
MoveDown(m, b) ==
    IF m.focusedTask < CurrentColumnTaskCount(m, b) - 1
    THEN [m EXCEPT !.focusedTask = @ + 1]
    ELSE m

\* BoardService.MoveTask: FindByID, Board.MoveTask, Save.
ServiceMoveTask(d, id, target) ==
    LET found == FindByID(d)
        b     == found.board
        k     == GetColumn(b, target)
    IN  IF ~found.ok THEN [ok |-> FALSE]
        ELSE IF \A p \in TaskPlaces(b) : b.columns[p[1]].tasks[p[2]].id # id
        THEN [ok |-> FALSE]
        ELSE IF k = 0 \/ k = FindTask(b, id)[1] \/ ~CanAddTask(b.columns[k])
        THEN [ok |-> FALSE]
        ELSE [ok |-> TRUE, board |-> MoveTaskTo(b, FindTask(b, id), k)]

\* BoardService.CreateTask: FindByID, GetColumn, CanAddTask, the new task, Save.
ServiceCreateTask(d, columnName) ==
    LET found == FindByID(d)
        b     == found.board
        k     == GetColumn(b, columnName)
    IN  IF ~found.ok THEN [ok |-> FALSE]
        ELSE IF k = 0 THEN [ok |-> FALSE]
        ELSE IF ~CanAddTask(b.columns[k]) THEN [ok |-> FALSE]
        ELSE IF ~AddTaskOk(b.columns[k], NewTask(b.nextTaskNum)) THEN [ok |-> FALSE]
        ELSE [ok |-> TRUE, board |-> WithCreatedTask(b, k)]

\* An index into a slice of n elements is in range.
InRange(i, n) == 0 <= i /\ i < n

TuiFrame == UNCHANGED <<save, faults, sw, rt, root>>

\* Update: keys.Left
KeyLeft ==
    /\ ~call.outOfRange
    /\ call' = [MoveLeft(call, board) EXCEPT !.op = "left"]
    /\ UNCHANGED <<board, disk>>
    /\ TuiFrame

\* Update: keys.Right
KeyRight ==
    /\ ~call.outOfRange
    /\ call' = [MoveRight(call, board) EXCEPT !.op = "right"]
    /\ UNCHANGED <<board, disk>>
    /\ TuiFrame

\* Update: keys.Up
KeyUp ==
    /\ ~call.outOfRange
    /\ call' = [MoveUp(call, board) EXCEPT !.op = "up"]
    /\ UNCHANGED <<board, disk>>
    /\ TuiFrame

\* Update: keys.Down
KeyDown ==
    /\ ~call.outOfRange
    /\ call' = [MoveDown(call, board) EXCEPT !.op = "down"]
    /\ UNCHANGED <<board, disk>>
    /\ TuiFrame

\* deleteTask: nothing is deleted; clampTaskFocus when the column has tasks.
DeleteTaskFocus(m, b) ==
    IF CurrentColumnTaskCount(m, b) = 0 THEN m ELSE ClampTaskFocus(m, b)

\* Update: keys.Delete
KeyDelete ==
    /\ ~call.outOfRange
    /\ call' = [DeleteTaskFocus(call, board) EXCEPT !.op = "delete"]
    /\ UNCHANGED <<board, disk>>
    /\ TuiFrame

\* moveTask: the focused task goes to the next column through the use case,
\* m.board becomes the board the use case returns, and the focus follows
\* the task.
KeyMove ==
    /\ ~call.outOfRange
    /\ IF CurrentColumnTaskCount(call, board) = 0
          \/ call.focusedColumn >= Len(board.columns) - 1
       THEN /\ call' = [call EXCEPT !.op = "move"]
            /\ UNCHANGED <<board, disk>>
       ELSE IF ~InRange(call.focusedTask, CurrentColumnTaskCount(call, board))
       THEN /\ call' = [call EXCEPT !.op = "move", !.outOfRange = TRUE]
            /\ UNCHANGED <<board, disk>>
       ELSE \E moved \in {ServiceMoveTask(disk,
                              board.columns[call.focusedColumn + 1].tasks[call.focusedTask + 1].id,
                              board.columns[call.focusedColumn + 2].displayName)} :
                IF ~moved.ok
                THEN /\ call' = [call EXCEPT !.op = "move"]
                     /\ UNCHANGED <<board, disk>>
                ELSE /\ disk' = SavedOn(disk, moved.board)
                     /\ board' = moved.board
                     /\ call' =
                          IF ~InRange(call.focusedColumn + 1, Len(moved.board.columns))
                          THEN [call EXCEPT !.op = "move", !.outOfRange = TRUE]
                          ELSE ClampTaskFocus(
                                   [call EXCEPT
                                       !.op = "move",
                                       !.focusedColumn = @ + 1,
                                       !.focusedTask =
                                           Len(moved.board.columns[call.focusedColumn + 2].tasks) - 1],
                                   moved.board)
    /\ TuiFrame

\* addTask: a task is created in the focused column through the use case,
\* the board is loaded again and the focus goes to the last task of the
\* column.
KeyAdd ==
    /\ ~call.outOfRange
    /\ FindByID(disk).ok => FindByID(disk).board.nextTaskNum <= MaxTuiTasks
    /\ IF ~InRange(call.focusedColumn, Len(board.columns))
       THEN /\ call' = [call EXCEPT !.op = "add", !.outOfRange = TRUE]
            /\ UNCHANGED <<board, disk>>
       ELSE \E created \in {ServiceCreateTask(disk,
                                board.columns[call.focusedColumn + 1].displayName)} :
                IF ~created.ok
                THEN /\ call' = [call EXCEPT !.op = "add"]
                     /\ UNCHANGED <<board, disk>>
                ELSE \E saved \in {SavedOn(disk, created.board)} :
                     \E loaded \in {FindByID(saved)} :
                         /\ disk' = saved
                         /\ IF ~loaded.ok
                            THEN /\ call' = [call EXCEPT !.op = "add"]
                                 /\ UNCHANGED board
                            ELSE /\ board' = loaded.board
                                 /\ call' =
                                      IF ~InRange(call.focusedColumn, Len(loaded.board.columns))
                                      THEN [call EXCEPT !.op = "add", !.outOfRange = TRUE]
                                      ELSE [call EXCEPT
                                               !.op = "add",
                                               !.focusedTask =
                                                   Len(loaded.board.columns[call.focusedColumn + 1].tasks) - 1]
    /\ TuiFrame

TuiInit ==
    /\ \E b \in TuiBoards :
           /\ disk = SavedOn(EmptyDisk, b)
           /\ board = FindByID(SavedOn(EmptyDisk, b)).board
    /\ call = NewModel
    /\ save = NoSave
    /\ faults = 0
    /\ sw = NoWrite
    /\ rt = NoRoundTrip
    /\ root = NoRoot

TuiNext ==
    \/ KeyLeft
    \/ KeyRight
    \/ KeyUp
    \/ KeyDown
    \/ KeyMove
    \/ KeyAdd
    \/ KeyDelete

TuiSpec == TuiInit /\ [][TuiNext]_vars

C39_AddRefused ==
    /\ call.op = "add"
    /\ ~CanAddTask(board.columns[call.focusedColumn + 1])

====
